---------------------------- MODULE Spec2Model ----------------------------
(***************************************************************************)
(* State-machine model of the renderer of the mastering application        *)
(* (src/unnamed/part_002, the renderer script), its fader component        *)
(* (src/src/components/Fader.js) and the file IPC of the main process      *)
(* (src/unnamed/part_000).                                                 *)
(*                                                                         *)
(* Units.  Every level in dB is held in HALF-dB units (the fader step is   *)
(* 0.5 dB and the only fractional constant of the code is +2.5 dB), so     *)
(* -1 dB is -2, -18 dB is -36, +2.5 dB is 5.  Linear gains are held in     *)
(* thousandths (1.0 is 1000).  The coefficients of the stereo width        *)
(* matrix are held in units of 1/200, so midCoef + sideCoef at width w     *)
(* percent is 100 + w.  Times are in milliseconds.                         *)
(***************************************************************************)
EXTENDS Integers, Sequences, FiniteSets, TLC

(***************************************************************************)
(* Bounds of the model.                                                    *)
(***************************************************************************)
MaxExports == 2
MaxLoads == 2
\* source nodes one run of the player creates
MaxSources == 3

(***************************************************************************)
(* Input sets.                                                             *)
(***************************************************************************)
\* files the user can pick: a mono one, a stereo one, one that cannot be decoded
Files == {"mono.wav", "stereo.wav", "bad.wav"}
FileChannels(f) == IF f = "mono.wav" THEN 1 ELSE 2
Decodable(f) == f # "bad.wav"

ExportIds == 1..MaxExports

ToggleIds == {"normalizeLoudness", "truePeakLimit", "cleanLowEnd", "glueCompression",
              "centerBass", "cutMud", "addAir", "tameHarsh"}
EqBands == {"low", "lowMid", "mid", "highMid", "high"}
FaderIds == {"inputGain", "ceiling", "eqLow", "eqLowMid", "eqMid", "eqHighMid", "eqHigh"}

Outcomes == {"completed", "cancelled", "failed"}

(***************************************************************************)
(* Web Audio node constructors.  A node is the record of its parameters.   *)
(* The values are the defaults the Web Audio API gives a new node.         *)
(***************************************************************************)
\* ctx.createGain(): gain 1.0, in thousandths, and in the 1/200 units of the matrix
createGain == 1000

createMatrixGain == 200

createBiquadFilter == [type |-> "lowpass", frequency |-> 350, Q |-> 10, gain |-> 0]

createDynamicsCompressor ==
  [threshold |-> -48, knee |-> 60, ratio |-> 12, attack |-> 3, release |-> 250]

\* Math.pow(10, dB / 20) in thousandths, for dB = h / 2, h in -24..24
PowTable ==
  <<251, 266, 282, 299, 316, 335, 355, 376, 398, 422, 447, 473, 501, 531, 562, 596,
    631, 668, 708, 750, 794, 841, 891, 944, 1000, 1059, 1122, 1189, 1259, 1334, 1413,
    1496, 1585, 1679, 1778, 1884, 1995, 2113, 2239, 2371, 2512, 2661, 2818, 2985,
    3162, 3350, 3548, 3758, 3981>>

dbToLinear(h) == PowTable[h + 25]

(***************************************************************************)
(* The preview chain: createAudioChain and the update functions.           *)
(***************************************************************************)
\* an update that leaves a disabled compressor at its working threshold
updateAudioChain_KeepsThreshold(n, chk, byp, ceil) ==
  [n EXCEPT
     !.highpass.frequency = IF chk["cleanLowEnd"] /\ ~byp THEN 30 ELSE 1,
     !.lowshelf.gain = IF chk["cutMud"] /\ ~byp THEN -6 ELSE 0,
     !.highshelf.gain = IF chk["addAir"] /\ ~byp THEN 5 ELSE 0,
     !.midPeak.gain = IF chk["tameHarsh"] /\ ~byp THEN -4 ELSE 0,
     !.compressor.threshold = -36,
     !.compressor.ratio = IF chk["glueCompression"] /\ ~byp THEN 3 ELSE 1,
     !.limiter.threshold = IF chk["truePeakLimit"] /\ ~byp THEN ceil ELSE 0,
     !.limiter.ratio = IF chk["truePeakLimit"] /\ ~byp THEN 20 ELSE 1]

\* updateAudioChain: the toggles, the bypass flag and the ceiling decide the
\* highpass corner, the three polish gains, the compressor and the limiter.
updateAudioChain(n, chk, byp, ceil) ==
  [n EXCEPT
     !.highpass.frequency = IF chk["cleanLowEnd"] /\ ~byp THEN 30 ELSE 1,
     !.lowshelf.gain = IF chk["cutMud"] /\ ~byp THEN -6 ELSE 0,
     !.highshelf.gain = IF chk["addAir"] /\ ~byp THEN 5 ELSE 0,
     !.midPeak.gain = IF chk["tameHarsh"] /\ ~byp THEN -4 ELSE 0,
     !.compressor.threshold = IF chk["glueCompression"] /\ ~byp THEN -36 ELSE 0,
     !.compressor.ratio = IF chk["glueCompression"] /\ ~byp THEN 3 ELSE 1,
     !.limiter.threshold = IF chk["truePeakLimit"] /\ ~byp THEN ceil ELSE 0,
     !.limiter.ratio = IF chk["truePeakLimit"] /\ ~byp THEN 20 ELSE 1]

\* a sign slip in the matrix: R's contribution to L' takes the sign of L's
updateStereoWidth_SignSlip(n, byp, slider) ==
  LET width == IF byp THEN 100 ELSE slider
      midCoef == 100
      sideCoef == width
  IN [n EXCEPT !.lToMid = midCoef + sideCoef,
               !.rToMid = midCoef + sideCoef,
               !.lToSide = midCoef - sideCoef,
               !.rToSide = midCoef + sideCoef]

\* updateStereoWidth: the four gains of the M/S matrix, in units of 1/200
updateStereoWidth(n, byp, slider) ==
  LET width == IF byp THEN 100 ELSE slider
      midCoef == 100
      sideCoef == width
  IN [n EXCEPT !.lToMid = midCoef + sideCoef,
               !.rToMid = midCoef - sideCoef,
               !.lToSide = midCoef - sideCoef,
               !.rToSide = midCoef + sideCoef]

\* updateEQ: the five band gains, or 0 under bypass
updateEQ(n, byp, eq) ==
  [n EXCEPT !.eqLow.gain = IF byp THEN 0 ELSE eq.low,
            !.eqLowMid.gain = IF byp THEN 0 ELSE eq.lowMid,
            !.eqMid.gain = IF byp THEN 0 ELSE eq.mid,
            !.eqHighMid.gain = IF byp THEN 0 ELSE eq.highMid,
            !.eqHigh.gain = IF byp THEN 0 ELSE eq.high]

\* updateInputGain: inputGain.gain.setValueAtTime(10^(inputGainValue/20), now)
updateInputGain(n, gainDb) == [n EXCEPT !.inputGain = dbToLinear(gainDb)]

\* createAudioChain: fresh nodes, their fixed design, then the three updates
\* (updateAudioChain, updateStereoWidth, updateEQ; not updateInputGain)
createAudioChain(chk, byp, ceil, slider, eq) ==
  LET fresh ==
        [inputGain |-> createGain,
         highpass |-> [createBiquadFilter EXCEPT
                         !.type = "highpass", !.frequency = 30, !.Q = 7],
         eqLow |-> [createBiquadFilter EXCEPT !.type = "lowshelf", !.frequency = 80],
         eqLowMid |-> [createBiquadFilter EXCEPT
                         !.type = "peaking", !.frequency = 250, !.Q = 10],
         eqMid |-> [createBiquadFilter EXCEPT
                      !.type = "peaking", !.frequency = 1000, !.Q = 10],
         eqHighMid |-> [createBiquadFilter EXCEPT
                          !.type = "peaking", !.frequency = 4000, !.Q = 10],
         eqHigh |-> [createBiquadFilter EXCEPT !.type = "highshelf", !.frequency = 12000],
         lowshelf |-> [createBiquadFilter EXCEPT
                         !.type = "peaking", !.frequency = 250, !.Q = 15, !.gain = 0],
         highshelf |-> [createBiquadFilter EXCEPT
                          !.type = "highshelf", !.frequency = 12000, !.gain = 0],
         midPeak |-> [createBiquadFilter EXCEPT
                        !.type = "peaking", !.frequency = 5000, !.Q = 20, !.gain = 0],
         compressor |-> [createDynamicsCompressor EXCEPT
                           !.threshold = -36, !.knee = 20, !.ratio = 3,
                           !.attack = 20, !.release = 250],
         limiter |-> [createDynamicsCompressor EXCEPT
                        !.threshold = -2, !.knee = 0, !.ratio = 20,
                        !.attack = 1, !.release = 50],
         lToMid |-> createMatrixGain, rToMid |-> createMatrixGain,
         lToSide |-> createMatrixGain, rToSide |-> createMatrixGain]
  IN updateEQ(updateStereoWidth(updateAudioChain(fresh, chk, byp, ceil), byp, slider),
              byp, eq)

\* the value of audioNodes before createAudioChain has run (every node null)
NullNodes == createAudioChain([t \in ToggleIds |-> FALSE], TRUE, 0, 100,
                              [low |-> 0, lowMid |-> 0, mid |-> 0, highMid |-> 0, high |-> 0])

(***************************************************************************)
(* The offline graph: createOfflineNodes(offlineCtx, settings).            *)
(* JavaScript's "x || d" yields d when x is 0.                             *)
(***************************************************************************)
OrDefault(x, d) == IF x = 0 THEN d ELSE x

createOfflineNodes(settings) ==
  LET width == settings.stereoWidth
      midCoef == 100
      sideCoef == width
  IN
  [inputGain |-> dbToLinear(OrDefault(settings.inputGain, 0)),
   highpass |-> [createBiquadFilter EXCEPT
                   !.type = "highpass",
                   !.frequency = IF settings.cleanLowEnd THEN 30 ELSE 1,
                   !.Q = 7],
   eqLow |-> [createBiquadFilter EXCEPT
                !.type = "lowshelf", !.frequency = 80,
                !.gain = OrDefault(settings.eqLow, 0)],
   eqLowMid |-> [createBiquadFilter EXCEPT
                   !.type = "peaking", !.frequency = 250, !.Q = 10,
                   !.gain = OrDefault(settings.eqLowMid, 0)],
   eqMid |-> [createBiquadFilter EXCEPT
                !.type = "peaking", !.frequency = 1000, !.Q = 10,
                !.gain = OrDefault(settings.eqMid, 0)],
   eqHighMid |-> [createBiquadFilter EXCEPT
                    !.type = "peaking", !.frequency = 4000, !.Q = 10,
                    !.gain = OrDefault(settings.eqHighMid, 0)],
   eqHigh |-> [createBiquadFilter EXCEPT
                 !.type = "highshelf", !.frequency = 12000,
                 !.gain = OrDefault(settings.eqHigh, 0)],
   lowshelf |-> [createBiquadFilter EXCEPT
                   !.type = "peaking", !.frequency = 250, !.Q = 15,
                   !.gain = IF settings.cutMud THEN -6 ELSE 0],
   highshelf |-> [createBiquadFilter EXCEPT
                    !.type = "highshelf", !.frequency = 12000,
                    !.gain = IF settings.addAir THEN 5 ELSE 0],
   midPeak |-> [createBiquadFilter EXCEPT
                  !.type = "peaking", !.frequency = 5000, !.Q = 20,
                  !.gain = IF settings.tameHarsh THEN -4 ELSE 0],
   compressor |-> IF settings.glueCompression
                    THEN [createDynamicsCompressor EXCEPT
                            !.threshold = -36, !.knee = 20, !.ratio = 3,
                            !.attack = 20, !.release = 250]
                    ELSE [createDynamicsCompressor EXCEPT !.threshold = 0, !.ratio = 1],
   limiter |-> IF settings.truePeakLimit
                 THEN [createDynamicsCompressor EXCEPT
                         !.threshold = OrDefault(settings.truePeakCeiling, -2),
                         !.knee = 0, !.ratio = 20, !.attack = 1, !.release = 50]
                 ELSE [createDynamicsCompressor EXCEPT !.threshold = 0, !.ratio = 1],
   lToMid |-> midCoef + sideCoef,
   rToMid |-> midCoef - sideCoef,
   lToSide |-> midCoef - sideCoef,
   rToSide |-> midCoef + sideCoef]

\* the settings object the processBtn click handler builds from the controls
\* (output sample rate and bit depth are not modelled here)
Settings(chk, ceil, slider, gainDb, eq) ==
  [normalizeLoudness |-> chk["normalizeLoudness"],
   truePeakLimit |-> chk["truePeakLimit"],
   truePeakCeiling |-> ceil,
   cleanLowEnd |-> chk["cleanLowEnd"],
   glueCompression |-> chk["glueCompression"],
   stereoWidth |-> slider,
   centerBass |-> chk["centerBass"],
   cutMud |-> chk["cutMud"],
   addAir |-> chk["addAir"],
   tameHarsh |-> chk["tameHarsh"],
   inputGain |-> gainDb,
   eqLow |-> eq.low,
   eqLowMid |-> eq.lowMid,
   eqMid |-> eq.mid,
   eqHighMid |-> eq.highMid,
   eqHigh |-> eq.high]

(***************************************************************************)
(* Signal paths.  A path lists the stages from the source to the output;   *)
(* "stereoWidth" stands for the splitter, the four matrix gains and the    *)
(* merger.                                                                 *)
(***************************************************************************)
\* the matrix as connectAudioChain / renderOffline wire it: splitter output 0
\* (L) feeds lToMid and lToSide, output 1 (R) feeds rToMid and rToSide;
\* lToMid + rToMid go to merger input 0 (L'), lToSide + rToSide to input 1 (R').
\* The result is <<L', R'>> times 200.
WidthMatrix(n, L, R) ==
  <<L * n.lToMid + R * n.rToMid, L * n.lToSide + R * n.rToSide>>

\* the limiter wired ahead of the width matrix
connectAudioChain_LimiterFirst ==
  <<"inputGain", "highpass", "eqLow", "eqLowMid", "eqMid", "eqHighMid", "eqHigh",
    "lowshelf", "midPeak", "highshelf", "compressor", "limiter", "stereoWidth">>

\* connectAudioChain(source)
connectAudioChain ==
  <<"inputGain", "highpass", "eqLow", "eqLowMid", "eqMid", "eqHighMid", "eqHigh",
    "lowshelf", "midPeak", "highshelf", "compressor", "stereoWidth", "limiter">>

\* the connections renderOffline makes, for any source buffer
renderOfflineGraph ==
  <<"inputGain", "highpass", "eqLow", "eqLowMid", "eqMid", "eqHighMid", "eqHigh",
    "lowshelf", "midPeak", "highshelf", "compressor", "stereoWidth", "limiter">>


VARIABLES
  \* ---- controls (DOM inputs and the variables the faders manage)
  checked,            \* checked[t]: the checkbox t
  stereoWidthSlider,  \* stereoWidthSlider.value, percent
  inputGainValue,     \* let inputGainValue (half-dB)
  ceilingValueDb,     \* let ceilingValueDb (half-dB)
  eqValues,           \* let eqValues = {low, lowMid, mid, highMid, high} (half-dB)
  faders,             \* faders[f]: Fader.value of each fader instance (half-dB)
  activePreset,       \* the preset button carrying class 'active', or "none"
  \* ---- preview graph
  isBypassed,         \* playerState.isBypassed
  context,            \* audioNodes.context exists
  chainCreated,       \* the nodes of audioNodes exist (createAudioChain has run)
  audioNodes,         \* parameters of the preview nodes
  previewChain,       \* the connections connectAudioChain made among the preview nodes
  filterState,        \* internal memory of the preview filters: "zero" or "history"
  \* ---- loaded audio
  buffer,             \* audioNodes.buffer
  fileState,          \* fileState.{selectedFilePath, originalBuffer, normalizedBuffer}
  loads,              \* loadAudioFile invocations in flight
  \* ---- player
  isPlaying,          \* playerState.isPlaying
  pauseTime,          \* playerState.pauseTime
  position,           \* context.currentTime - playerState.startTime
  source,             \* audioNodes.source: 0 (null) or the id of the live source
  sourceBuffer,       \* audioNodes.source.buffer: the buffer the live source plays
  seekPending,        \* a seek restarted the live source and no block was rendered since
  \* ---- export
  isProcessing,
  processingCancelled,
  processBtnDisabled,
  modal,              \* the loading modal: hidden, percent, cancel button shown
  exports,            \* exports[i]: the i-th invocation of the processBtn click handler
  \* ---- player run time
  transport,          \* interval timers, source nodes with their onended handlers,
                      \* the meter's animation frame, seekBar.value
  \* ---- sample-level functions
  dsp                 \* one call of measureLUFS, normalizeToLUFS or encodeWAV:
                      \* the buffers it works on, its arguments and what it returned

ctlVars == <<checked, stereoWidthSlider, inputGainValue, ceilingValueDb, eqValues,
             faders, activePreset>>
chainVars == <<isBypassed, context, chainCreated, audioNodes>>
graphVars == <<previewChain, filterState>>
loadVars == <<buffer, fileState, loads>>
playerVars == <<isPlaying, pauseTime, position, source, sourceBuffer, seekPending>>
exportVars == <<isProcessing, processingCancelled, processBtnDisabled, modal, exports>>

appVars == <<ctlVars, chainVars, graphVars, loadVars, playerVars, exportVars, transport>>

vars == <<appVars, dsp>>

(***************************************************************************)
(* Initial state: the script has run, initFaders() included; no file is    *)
(* loaded and nothing is playing.  The checkboxes start at the defaults    *)
(* of the settings surface.                                                *)
(***************************************************************************)
NoBuffer == [file |-> "none", channels |-> 0, kind |-> "none"]

ZeroEq == [low |-> 0, lowMid |-> 0, mid |-> 0, highMid |-> 0, high |-> 0]

\* the settings field of an invocation that has not built its settings yet
NoSettings == Settings([t \in ToggleIds |-> FALSE], 0, 100, 0, ZeroEq)

IdleExport ==
  [pc |-> "idle", buffer |-> NoBuffer, settings |-> NoSettings, nodes |-> NullNodes,
   graph |-> <<>>,
   progress |-> <<>>, shown |-> <<>>, reported |-> {}, toast |-> "none",
   renderFailed |-> FALSE, writeInvoked |-> FALSE, fileWritten |-> FALSE,
   cancelRequested |-> FALSE, toastTimer |-> FALSE]

\* no sample-level call is being followed
NoCall == [fn |-> "none", heap |-> <<>>, given |-> <<>>, opts |-> <<>>, ret |-> <<>>]

\* no source node was created, no timer set, no frame requested
NoTransport ==
  [timers |-> {}, seekUpdateInterval |-> 0, nextTimer |-> 1,
   nodes |-> <<>>, live |-> 0,
   animationId |-> FALSE, frame |-> FALSE,
   seekBar |-> 0, atEnd |-> FALSE]

InitApp ==
  /\ transport = NoTransport
  /\ checked = [t \in ToggleIds |->
                  t \in {"normalizeLoudness", "truePeakLimit", "cleanLowEnd"}]
  /\ stereoWidthSlider = 100
  /\ inputGainValue = 0
  /\ ceilingValueDb = -2
  /\ eqValues = ZeroEq
  /\ faders = [f \in FaderIds |-> IF f = "ceiling" THEN -2 ELSE 0]
  /\ activePreset = "none"
  /\ isBypassed = FALSE
  /\ context = FALSE
  /\ chainCreated = FALSE
  /\ audioNodes = NullNodes
  /\ previewChain = <<>>
  /\ filterState = "zero"
  /\ buffer = NoBuffer
  /\ fileState = [selectedFilePath |-> "null", originalBuffer |-> NoBuffer,
                  normalizedBuffer |-> NoBuffer]
  /\ loads = {}
  /\ isPlaying = FALSE
  /\ pauseTime = 0
  /\ position = 0
  /\ source = 0
  /\ sourceBuffer = NoBuffer
  /\ seekPending = FALSE
  /\ isProcessing = FALSE
  /\ processingCancelled = FALSE
  /\ processBtnDisabled \in BOOLEAN
  /\ modal = [hidden |-> TRUE, percent |-> 0, cancel |-> FALSE, hideTimers |-> 0]
  /\ exports = [i \in ExportIds |-> IdleExport]

Init == InitApp /\ dsp = NoCall

(***************************************************************************)
(* The loading modal.                                                      *)
(***************************************************************************)
showLoadingModal(m, percent, showCancel) ==
  [m EXCEPT !.hidden = FALSE, !.percent = percent, !.cancel = showCancel]

hideLoadingModal(m) == [m EXCEPT !.hidden = TRUE, !.cancel = FALSE]

(***************************************************************************)
(* File loading: loadFile / loadAudioFile.  A load in flight is the record *)
(* of its file and of the await it is suspended at.                        *)
(***************************************************************************)
decodeAudioData(f) == [file |-> f, channels |-> FileChannels(f), kind |-> "original"]

\* normalizeToLUFS returns a new buffer of the same shape
normalizeToLUFS(b) == [b EXCEPT !.kind = "normalized"]

\* changeFileBtn / drop: stopAudio(); pauseTime = 0; then loadFile(filePath).
\* selectFileBtn: loadFile(filePath) alone.  loadFile runs to the first await.
LoadStart(f, stopFirst) ==
  /\ Cardinality(loads) < MaxLoads
  /\ [file |-> f, pc |-> "reading"] \notin loads
  /\ IF stopFirst
       THEN /\ source' = 0
            /\ sourceBuffer' = NoBuffer
            /\ isPlaying' = FALSE
            /\ pauseTime' = 0
            /\ seekPending' = FALSE
            /\ UNCHANGED position
       ELSE UNCHANGED playerVars
  /\ fileState' = [fileState EXCEPT !.selectedFilePath = f]
  /\ context' = TRUE
  /\ modal' = showLoadingModal(modal, 5, FALSE)
  /\ loads' = loads \cup {[file |-> f, pc |-> "reading"]}
  /\ UNCHANGED <<ctlVars, isBypassed, chainCreated, audioNodes, graphVars, buffer,
                 isProcessing, processingCancelled, processBtnDisabled, exports>>

\* readFileData resolves: the handler goes on to decodeAudioData
ReadReturn(l) ==
  /\ l \in loads /\ l.pc = "reading"
  /\ [file |-> l.file, pc |-> "decoding"] \notin loads
  /\ loads' = (loads \ {l}) \cup {[file |-> l.file, pc |-> "decoding"]}
  /\ modal' = showLoadingModal(modal, 20, FALSE)
  /\ UNCHANGED <<ctlVars, chainVars, graphVars, buffer, fileState, playerVars,
                 isProcessing, processingCancelled, processBtnDisabled, exports>>

\* readFileData or decodeAudioData rejects: the catch block
LoadThrow(l) ==
  /\ l \in loads
  /\ l.pc = "decoding" => ~Decodable(l.file)
  /\ loads' = loads \ {l}
  /\ modal' = hideLoadingModal(modal)
  /\ UNCHANGED <<ctlVars, chainVars, graphVars, buffer, fileState, playerVars,
                 isProcessing, processingCancelled, processBtnDisabled, exports>>

\* decodeAudioData resolves: buffers stored, createAudioChain(), buttons
\* enabled, the modal hidden 300 ms later
DecodeReturn(l) ==
  /\ l \in loads /\ l.pc = "decoding" /\ Decodable(l.file)
  /\ modal.hideTimers < MaxLoads
  /\ LET decodedBuffer == decodeAudioData(l.file)
         normalizedBuffer == normalizeToLUFS(decodedBuffer)
     IN /\ fileState' = [fileState EXCEPT !.originalBuffer = decodedBuffer,
                                          !.normalizedBuffer = normalizedBuffer]
        /\ buffer' = normalizedBuffer
  /\ chainCreated' = TRUE
  /\ audioNodes' = createAudioChain(checked, isBypassed, ceilingValueDb,
                                    stereoWidthSlider, eqValues)
  /\ previewChain' = <<>>
  /\ filterState' = "zero"
  /\ processBtnDisabled' = FALSE
  /\ modal' = [showLoadingModal(modal, 100, FALSE) EXCEPT !.hideTimers = @ + 1]
  /\ loads' = loads \ {l}
  /\ UNCHANGED <<ctlVars, isBypassed, context, playerVars, isProcessing,
                 processingCancelled, exports>>

\* setTimeout(() => hideLoadingModal(), 300) of loadAudioFile fires
LoadHideTimeout ==
  /\ modal.hideTimers > 0
  /\ modal' = [hideLoadingModal(modal) EXCEPT !.hideTimers = @ - 1]
  /\ UNCHANGED <<ctlVars, chainVars, graphVars, loadVars, playerVars,
                 isProcessing, processingCancelled, processBtnDisabled, exports>>

(***************************************************************************)
(* Player: playAudio, pauseAudio, stopAudio, seekTo and the audio thread.  *)
(* Positions are whole steps 0..Duration of the loaded buffer.             *)
(***************************************************************************)
Duration == 3

\* playBtn click: pauseAudio() when playing, else playAudio()
PlayBtnClick ==
  /\ IF isPlaying
       THEN \* pauseAudio: pauseTime = currentTime - startTime; stopAudio()
            /\ pauseTime' = position
            /\ source' = 0
            /\ sourceBuffer' = NoBuffer
            /\ isPlaying' = FALSE
            /\ seekPending' = FALSE
            /\ UNCHANGED <<position, previewChain>>
       ELSE IF buffer = NoBuffer \/ ~context
         THEN UNCHANGED <<playerVars, previewChain>>
         ELSE \* playAudio: stopAudio(); new source; connectAudioChain; start
              /\ source' = 1
              /\ sourceBuffer' = buffer
              /\ previewChain' = connectAudioChain
              /\ position' = pauseTime
              /\ isPlaying' = TRUE
              /\ seekPending' = FALSE
              /\ UNCHANGED pauseTime
  /\ UNCHANGED <<ctlVars, chainVars, filterState, loadVars, exportVars>>

\* stopBtn click: stopAudio(); pauseTime = 0
StopBtnClick ==
  /\ source' = 0
  /\ sourceBuffer' = NoBuffer
  /\ isPlaying' = FALSE
  /\ pauseTime' = 0
  /\ seekPending' = FALSE
  /\ UNCHANGED position
  /\ UNCHANGED <<ctlVars, chainVars, graphVars, loadVars, exportVars>>

\* seekTo(time), from a click or a drag on the waveform
SeekTo(time) ==
  /\ buffer # NoBuffer
  /\ pauseTime' = time
  /\ IF isPlaying
       THEN \* old source stopped, a new one connected to the same nodes and started
            /\ source' = 1
            /\ sourceBuffer' = buffer
            /\ previewChain' = connectAudioChain
            /\ position' = time
            /\ seekPending' = TRUE
            /\ UNCHANGED isPlaying
       ELSE UNCHANGED <<isPlaying, position, source, sourceBuffer, seekPending,
                        previewChain>>
  /\ UNCHANGED <<ctlVars, chainVars, filterState, loadVars, exportVars>>

\* the audio thread renders one block of the live source through the chain:
\* the filters and the dynamics stages now hold history of that audio
AudioProcess ==
  /\ source # 0
  /\ position < Duration
  /\ position' = position + 1
  /\ filterState' = IF previewChain # <<>> THEN "history" ELSE filterState
  /\ seekPending' = FALSE
  /\ UNCHANGED <<isPlaying, pauseTime, source, sourceBuffer, previewChain>>
  /\ UNCHANGED <<ctlVars, chainVars, loadVars, exportVars>>

(***************************************************************************)
(* Controls.                                                               *)
(***************************************************************************)
\* bypassBtn click: flip isBypassed; updateAudioChain(); updateEQ()
BypassClick ==
  /\ isBypassed' = ~isBypassed
  /\ audioNodes' = IF chainCreated
                     THEN updateEQ(updateAudioChain(audioNodes, checked, isBypassed',
                                                    ceilingValueDb),
                                   isBypassed', eqValues)
                     ELSE audioNodes
  /\ UNCHANGED <<ctlVars, context, chainCreated, graphVars, loadVars, playerVars,
                 exportVars>>

\* change of one of truePeakLimit, cleanLowEnd, glueCompression, centerBass,
\* cutMud, addAir, tameHarsh: updateAudioChain(); updateChecklist()
ToggleChange(t) ==
  /\ t \in ToggleIds \ {"normalizeLoudness"}
  /\ checked' = [checked EXCEPT ![t] = ~@]
  /\ audioNodes' = IF chainCreated
                     THEN updateAudioChain(audioNodes, checked', isBypassed, ceilingValueDb)
                     ELSE audioNodes
  /\ UNCHANGED <<stereoWidthSlider, inputGainValue, ceilingValueDb, eqValues, faders,
                 activePreset, isBypassed, context, chainCreated, graphVars, loadVars,
                 playerVars, exportVars>>

\* change of normalizeLoudness: audioNodes.buffer is switched to the normalized
\* or to the original buffer of fileState; with the box now checked, no
\* normalized buffer and a file path set, the handler calls
\* normalizeAudioInBackground, which is not defined, and ends there on the
\* ReferenceError; otherwise updateAudioChain(), updateChecklist()
NormalizeChange ==
  LET nowChecked == ~checked["normalizeLoudness"]
      throws == /\ nowChecked
                /\ fileState.normalizedBuffer = NoBuffer
                /\ fileState.selectedFilePath # "null"
  IN /\ checked' = [checked EXCEPT !["normalizeLoudness"] = nowChecked]
     /\ buffer' = IF nowChecked
                    THEN IF fileState.normalizedBuffer # NoBuffer
                           THEN fileState.normalizedBuffer ELSE buffer
                    ELSE IF fileState.originalBuffer # NoBuffer
                           THEN fileState.originalBuffer ELSE buffer
     /\ audioNodes' = IF chainCreated /\ ~throws
                        THEN updateAudioChain(audioNodes, checked', isBypassed,
                                              ceilingValueDb)
                        ELSE audioNodes
     /\ UNCHANGED <<stereoWidthSlider, inputGainValue, ceilingValueDb, eqValues,
                    faders, activePreset, isBypassed, context, chainCreated,
                    graphVars, fileState, loads, playerVars, exportVars>>

\* stereoWidthSlider input: updateStereoWidth()
StereoWidthInput(w) ==
  /\ w \in 0..200
  /\ w # stereoWidthSlider
  /\ stereoWidthSlider' = w
  /\ audioNodes' = IF chainCreated
                     THEN updateStereoWidth(audioNodes, isBypassed, w)
                     ELSE audioNodes
  /\ UNCHANGED <<checked, inputGainValue, ceilingValueDb, eqValues, faders,
                 activePreset, isBypassed, context, chainCreated, graphVars, loadVars,
                 playerVars, exportVars>>

(***************************************************************************)
(* Faders (Fader.js, theme.js).  A raw fader value is in thousandths of a  *)
(* dB; the stored value is in half-dB.                                     *)
(***************************************************************************)
FaderMin(f) == IF f = "ceiling" THEN -12 ELSE -24
FaderMax(f) == IF f = "ceiling" THEN 0 ELSE 24

Max2(a, b) == IF a > b THEN a ELSE b
Min2(a, b) == IF a < b THEN a ELSE b

\* Fader.quantize: Math.round(value / step) * step, clamped to [min, max];
\* step is 0.5 dB and Math.round rounds halves up
quantize(f, raw) ==
  Max2(FaderMin(f), Min2(FaderMax(f), (raw + 250) \div 500))

\* calculateDragValue without shift: sensitivity 400 px for the full range
calculateDragValue(f, startValue, deltaPixels) ==
  LET range == (FaderMax(f) - FaderMin(f)) * 500
      delta == (deltaPixels * range) \div 400
  IN Max2(FaderMin(f) * 500, Min2(FaderMax(f) * 500, startValue * 500 + delta))

\* an onChange that forgets clearActivePreset()
FaderOnChange_KeepsPreset(f, val) ==
  /\ inputGainValue' = IF f = "inputGain" THEN val ELSE inputGainValue
  /\ ceilingValueDb' = IF f = "ceiling" THEN val ELSE ceilingValueDb
  /\ eqValues' = CASE f = "eqLow" -> [eqValues EXCEPT !.low = val]
                   [] f = "eqLowMid" -> [eqValues EXCEPT !.lowMid = val]
                   [] f = "eqMid" -> [eqValues EXCEPT !.mid = val]
                   [] f = "eqHighMid" -> [eqValues EXCEPT !.highMid = val]
                   [] f = "eqHigh" -> [eqValues EXCEPT !.high = val]
                   [] OTHER -> eqValues
  /\ activePreset' = activePreset
  /\ audioNodes' =
       IF ~chainCreated THEN audioNodes
       ELSE CASE f = "inputGain" -> updateInputGain(audioNodes, val)
              [] f = "ceiling" -> updateAudioChain(audioNodes, checked, isBypassed, val)
              [] OTHER -> updateEQ(audioNodes, isBypassed, eqValues')

\* the onChange callback of fader f with the new value
FaderOnChange(f, val) ==
  /\ inputGainValue' = IF f = "inputGain" THEN val ELSE inputGainValue
  /\ ceilingValueDb' = IF f = "ceiling" THEN val ELSE ceilingValueDb
  /\ eqValues' = CASE f = "eqLow" -> [eqValues EXCEPT !.low = val]
                   [] f = "eqLowMid" -> [eqValues EXCEPT !.lowMid = val]
                   [] f = "eqMid" -> [eqValues EXCEPT !.mid = val]
                   [] f = "eqHighMid" -> [eqValues EXCEPT !.highMid = val]
                   [] f = "eqHigh" -> [eqValues EXCEPT !.high = val]
                   [] OTHER -> eqValues
  /\ activePreset' = IF f \in {"inputGain", "ceiling"} THEN activePreset ELSE "none"
  /\ audioNodes' =
       IF ~chainCreated THEN audioNodes
       ELSE CASE f = "inputGain" -> updateInputGain(audioNodes, val)
              [] f = "ceiling" -> updateAudioChain(audioNodes, checked, isBypassed, val)
              [] OTHER -> updateEQ(audioNodes, isBypassed, eqValues')

\* Fader.setValue(val, true): store the quantized value, call onChange if it changed
FaderSetValue(f, raw) ==
  LET val == quantize(f, raw)
  IN /\ faders' = [faders EXCEPT ![f] = val]
     /\ IF val # faders[f]
          THEN FaderOnChange(f, val)
          ELSE UNCHANGED <<inputGainValue, ceilingValueDb, eqValues, activePreset,
                           audioNodes>>
     /\ UNCHANGED <<checked, stereoWidthSlider, isBypassed, context, chainCreated,
                    graphVars, loadVars, playerVars, exportVars>>

\* a mousemove of a thumb drag: setValue(quantize(calculateDragValue(...)), true)
FaderDrag(f, deltaPixels) ==
  FaderSetValue(f, quantize(f, calculateDragValue(f, faders[f], deltaPixels)) * 500)

\* double click on the thumb: setValue(0, true), the unit of every fader being dB
FaderDblClick(f) == FaderSetValue(f, 0)

\* calculateWheelValue without shift: one tick moves by wheelStep = 0.01 of the
\* range, down for a positive deltaY
calculateWheelValue(f, currentValue, wheelDelta) ==
  LET range == (FaderMax(f) - FaderMin(f)) * 500
      direction == IF wheelDelta > 0 THEN -1 ELSE 1
      delta == (direction * range) \div 100
  IN Max2(FaderMin(f) * 500, Min2(FaderMax(f) * 500, currentValue * 500 + delta))

\* a wheel tick over the fader: setValue(quantize(calculateWheelValue(...)), true)
FaderWheel(f, wheelDelta) ==
  FaderSetValue(f, quantize(f, calculateWheelValue(f, faders[f], wheelDelta)) * 500)

\* a click on the track at the fraction quarter/4 of its height from the bottom:
\* newValue = min + norm * (max - min); setValue(quantize(newValue), true)
FaderTrackClick(f, quarter) ==
  /\ quarter \in 0..4
  /\ LET newValue == FaderMin(f) * 500
                       + (quarter * (FaderMax(f) - FaderMin(f)) * 500) \div 4
     IN FaderSetValue(f, quantize(f, newValue) * 500)

(***************************************************************************)
(* EQ presets, in half-dB.                                                 *)
(***************************************************************************)
PresetIds == {"flat", "vocal", "bass", "bright", "warm", "suno"}

\* a preset table with a value above the range of the faders
eqPresets_TooHot ==
  [flat |-> [low |-> 0, lowMid |-> 0, mid |-> 0, highMid |-> 0, high |-> 0],
   vocal |-> [low |-> -4, lowMid |-> -2, mid |-> 4, highMid |-> 6, high |-> 2],
   bass |-> [low |-> 26, lowMid |-> 6, mid |-> 0, highMid |-> -2, high |-> -4],
   bright |-> [low |-> -2, lowMid |-> 0, mid |-> 2, highMid |-> 6, high |-> 10],
   warm |-> [low |-> 6, lowMid |-> 4, mid |-> 0, highMid |-> -4, high |-> -6],
   suno |-> [low |-> 2, lowMid |-> -4, mid |-> 2, highMid |-> -2, high |-> 4]]

eqPresets ==
  [flat |-> [low |-> 0, lowMid |-> 0, mid |-> 0, highMid |-> 0, high |-> 0],
   vocal |-> [low |-> -4, lowMid |-> -2, mid |-> 4, highMid |-> 6, high |-> 2],
   bass |-> [low |-> 12, lowMid |-> 6, mid |-> 0, highMid |-> -2, high |-> -4],
   bright |-> [low |-> -2, lowMid |-> 0, mid |-> 2, highMid |-> 6, high |-> 10],
   warm |-> [low |-> 6, lowMid |-> 4, mid |-> 0, highMid |-> -4, high |-> -6],
   suno |-> [low |-> 2, lowMid |-> -4, mid |-> 2, highMid |-> -2, high |-> 4]]

\* the fader of each band
EqFader == [low |-> "eqLow", lowMid |-> "eqLowMid", mid |-> "eqMid",
            highMid |-> "eqHighMid", high |-> "eqHigh"]

\* click on a preset button: the five eqValues assigned from the table, the
\* five faders set (setValue without callback, which quantizes), updateEQ(),
\* class 'active' moved to this button
PresetClick(p) ==
  /\ p \in PresetIds
  /\ eqValues' = eqPresets[p]
  /\ faders' = [f \in FaderIds |->
                  IF \E b \in EqBands : EqFader[b] = f
                    THEN LET b == CHOOSE b \in EqBands : EqFader[b] = f
                         IN quantize(f, eqPresets[p][b] * 500)
                    ELSE faders[f]]
  /\ audioNodes' = IF chainCreated THEN updateEQ(audioNodes, isBypassed, eqValues')
                     ELSE audioNodes
  /\ activePreset' = p
  /\ UNCHANGED <<checked, stereoWidthSlider, inputGainValue, ceilingValueDb,
                 isBypassed, context, chainCreated, graphVars, loadVars, playerVars,
                 exportVars>>

(***************************************************************************)
(* Export: the processBtn click handler, one record per invocation, and    *)
(* the two cancel buttons.  pc is the await the invocation is suspended    *)
(* at: "dialog" (saveFile), "render" (startRendering), "write"             *)
(* (writeFileData); "done", "dismissed" and "rejected" are final.          *)
(* reported, fileWritten, cancelRequested and progress record what the     *)
(* invocation showed and did, and whether a cancel button was clicked      *)
(* while it was rendering or writing; shown records every percentage the   *)
(* modal was given by an export between this invocation's start and its    *)
(* end; renderFailed and writeInvoked record that renderOffline threw and  *)
(* that writeFileData was called; toast is the error toast of the guard.   *)
(***************************************************************************)
InProgress(i) == exports[i].pc \in {"render", "write"}

\* invocation i calls showLoadingModal with each of percents in turn: the one
\* modal displays them, whichever invocations are running
Show(i, percents) ==
  [j \in ExportIds |->
     IF j = i THEN [exports[j] EXCEPT !.progress = @ \o percents,
                                      !.shown = @ \o percents]
     ELSE IF InProgress(j) THEN [exports[j] EXCEPT !.shown = @ \o percents]
     ELSE exports[j]]

\* a handler without its guard: the save dialog opens with no audio loaded
ProcessClick_NoGuard(i) ==
  /\ ~processBtnDisabled
  /\ exports[i].pc = "idle"
  /\ \A j \in ExportIds : j < i => exports[j].pc # "idle"
  /\ exports' = [exports EXCEPT ![i].pc = "dialog"]
  /\ UNCHANGED <<ctlVars, chainVars, graphVars, loadVars, playerVars, isProcessing,
                 processingCancelled, processBtnDisabled, modal>>

\* click on processBtn (a disabled button delivers no click): the handler
\* runs to "await saveFile()", or returns at once when no audio is loaded
ProcessClick(i) ==
  /\ ~processBtnDisabled
  /\ exports[i].pc = "idle"
  /\ \A j \in ExportIds : j < i => exports[j].pc # "idle"
  /\ exports' = IF buffer = NoBuffer
                  THEN [exports EXCEPT ![i].pc = "rejected",
                                       ![i].toast = "No audio loaded"]
                  ELSE [exports EXCEPT ![i].pc = "dialog"]
  /\ UNCHANGED <<ctlVars, chainVars, graphVars, loadVars, playerVars, isProcessing,
                 processingCancelled, processBtnDisabled, modal>>

\* the save dialog is dismissed: the handler returns
SaveDialogDismiss(i) ==
  /\ exports[i].pc = "dialog"
  /\ exports' = [exports EXCEPT ![i].pc = "dismissed"]
  /\ UNCHANGED <<ctlVars, chainVars, graphVars, loadVars, playerVars, isProcessing,
                 processingCancelled, processBtnDisabled, modal>>

\* the save dialog returns a path: flags set, settings built, the modal shown
\* at 2 and 5, renderOffline builds and connects its graph, reports 10 and
\* awaits startRendering()
SaveDialogReturn(i) ==
  /\ exports[i].pc = "dialog"
  /\ isProcessing' = TRUE
  /\ processingCancelled' = FALSE
  /\ processBtnDisabled' = TRUE
  /\ LET settings == Settings(checked, ceilingValueDb, stereoWidthSlider,
                              inputGainValue, eqValues)
     IN exports' = [Show(i, <<2, 5, 10>>) EXCEPT
                      ![i].pc = "render",
                      ![i].buffer = buffer,
                      ![i].settings = settings,
                      ![i].nodes = createOfflineNodes(settings),
                      ![i].graph = renderOfflineGraph]
  /\ modal' = showLoadingModal(modal, 10, TRUE)
  /\ UNCHANGED <<ctlVars, chainVars, graphVars, loadVars, playerVars>>

\* the end of the handler, after the try/catch
Finish(ex, i) == [ex EXCEPT ![i].pc = "done"]

\* startRendering() resolves: 70, encodeWAV, 90; then the handler either
\* throws 'Cancelled' into its catch block or shows 95 and awaits writeFileData
RenderReturn(i) ==
  /\ exports[i].pc = "render"
  /\ IF processingCancelled
       THEN /\ exports' = Finish([Show(i, <<70, 90>>) EXCEPT
                                    ![i].reported = @ \cup {"cancelled"}], i)
            /\ modal' = hideLoadingModal(showLoadingModal(modal, 90, TRUE))
            /\ isProcessing' = FALSE
            /\ processBtnDisabled' = FALSE
       ELSE /\ exports' = [Show(i, <<70, 90, 95>>) EXCEPT ![i].pc = "write",
                                                          ![i].writeInvoked = TRUE]
            /\ modal' = showLoadingModal(modal, 95, TRUE)
            /\ UNCHANGED <<isProcessing, processBtnDisabled>>
  /\ UNCHANGED <<ctlVars, chainVars, graphVars, loadVars, playerVars,
                 processingCancelled>>

\* a catch block after which the handler returns at once
CatchFrom_LeavesDisabled(ex, i) ==
  /\ exports' = Finish([ex EXCEPT
                          ![i].reported = @ \cup {IF processingCancelled
                                                    THEN "cancelled" ELSE "failed"}], i)
  /\ modal' = hideLoadingModal(modal)
  /\ UNCHANGED <<ctlVars, chainVars, graphVars, loadVars, playerVars,
                 isProcessing, processBtnDisabled, processingCancelled>>

\* the catch block, entered with the invocations as ex: 'Export cancelled.'
\* when the flag is set, else the error; then the end of the handler
CatchFrom(ex, i) ==
  /\ exports' = Finish([ex EXCEPT
                          ![i].reported = @ \cup {IF processingCancelled
                                                    THEN "cancelled" ELSE "failed"}], i)
  /\ modal' = hideLoadingModal(modal)
  /\ isProcessing' = FALSE
  /\ processBtnDisabled' = FALSE
  /\ UNCHANGED <<ctlVars, chainVars, graphVars, loadVars, playerVars,
                 processingCancelled>>

Catch(i) == CatchFrom(exports, i)

\* a failed render that goes on to the write all the same
RenderThrow_WritesAnyway(i) ==
  /\ exports[i].pc = "render"
  /\ exports' = [exports EXCEPT ![i].renderFailed = TRUE, ![i].pc = "write",
                                ![i].writeInvoked = TRUE]
  /\ UNCHANGED <<ctlVars, chainVars, graphVars, loadVars, playerVars, isProcessing,
                 processingCancelled, processBtnDisabled, modal>>

\* startRendering() rejects: renderOffline throws into the catch block
RenderThrow(i) ==
  /\ exports[i].pc = "render"
  /\ CatchFrom([exports EXCEPT ![i].renderFailed = TRUE], i)

\* startRendering() resolves, 70 is reported, and encodeWAV throws (the
\* ArrayBuffer of the output cannot be allocated): into the catch block
EncodeThrow(i) ==
  /\ exports[i].pc = "render"
  /\ CatchFrom([Show(i, <<70>>) EXCEPT ![i].renderFailed = TRUE], i)

\* writeFileData rejects: the main process wrote no file
WriteThrow(i) ==
  /\ exports[i].pc = "write"
  /\ Catch(i)

\* writeFileData resolves, the main process having written the file:
\* 'Complete!' at 100 without cancel button, the success toast 300 ms later
WriteReturn(i) ==
  /\ exports[i].pc = "write"
  /\ exports' = Finish([Show(i, <<100>>) EXCEPT
                          ![i].fileWritten = TRUE,
                          ![i].reported = @ \cup {"completed"},
                          ![i].toastTimer = TRUE], i)
  /\ modal' = showLoadingModal(modal, 100, FALSE)
  /\ isProcessing' = FALSE
  /\ processBtnDisabled' = FALSE
  /\ UNCHANGED <<ctlVars, chainVars, graphVars, loadVars, playerVars,
                 processingCancelled>>

\* the 300 ms timer of a completed export: hideLoadingModal, success toast
CompleteTimeout(i) ==
  /\ exports[i].toastTimer
  /\ exports' = [exports EXCEPT ![i].toastTimer = FALSE]
  /\ modal' = hideLoadingModal(modal)
  /\ UNCHANGED <<ctlVars, chainVars, graphVars, loadVars, playerVars, isProcessing,
                 processingCancelled, processBtnDisabled>>

\* the exports a click on a cancel button is aimed at
NoteCancel(ex) ==
  [i \in ExportIds |->
     IF ex[i].pc \in {"render", "write"} THEN [ex[i] EXCEPT !.cancelRequested = TRUE]
     ELSE ex[i]]

\* click on the cancel button of the modal, which must be showing
ModalCancelClick ==
  /\ ~modal.hidden /\ modal.cancel
  /\ IF isProcessing
       THEN /\ processingCancelled' = TRUE
            /\ isProcessing' = FALSE
            /\ modal' = hideLoadingModal(modal)
            /\ exports' = [i \in ExportIds |->
                             IF InProgress(i)
                               THEN [NoteCancel(exports)[i] EXCEPT
                                       !.reported = @ \cup {"cancelled"}]
                               ELSE exports[i]]
       ELSE /\ exports' = NoteCancel(exports)
            /\ UNCHANGED <<processingCancelled, isProcessing, modal>>
  /\ UNCHANGED <<ctlVars, chainVars, graphVars, loadVars, playerVars,
                 processBtnDisabled>>

\* click on cancelBtn
CancelBtnClick ==
  /\ \E i \in ExportIds : InProgress(i)
  /\ exports' = NoteCancel(exports)
  /\ IF isProcessing
       THEN /\ processingCancelled' = TRUE
            /\ isProcessing' = FALSE
            /\ modal' = hideLoadingModal(modal)
       ELSE UNCHANGED <<processingCancelled, isProcessing, modal>>
  /\ UNCHANGED <<ctlVars, chainVars, graphVars, loadVars, playerVars,
                 processBtnDisabled>>

(***************************************************************************)
(* Specifications.  Each one lets the user and the platform do a part of   *)
(* what they can do.                                                       *)
(***************************************************************************)
LoadActions ==
  \/ \E f \in Files, stopFirst \in BOOLEAN : LoadStart(f, stopFirst)
  \/ \E l \in loads : ReadReturn(l)
  \/ \E l \in loads : LoadThrow(l)
  \/ \E l \in loads : DecodeReturn(l)
  \/ LoadHideTimeout

\* The save dialog is opened with the main window as its parent
\* (dialog.showSaveDialog(mainWindow, ...)), which makes it modal: the window
\* takes no user input while it is open.
DialogOpen == \E i \in ExportIds : exports[i].pc = "dialog"

\* the loading modal is an overlay: the controls under it take input only
\* while it is hidden
UiFree == modal.hidden /\ ~DialogOpen

\* exporting and cancelling; the user replaces the file by changeFile or by
\* a drop, one load at a time
NextExport ==
  \/ \E f \in {"stereo.wav"} : UiFree /\ loads = {} /\ LoadStart(f, TRUE) /\ UNCHANGED <<dsp, transport>>
  \/ \E l \in loads : ReadReturn(l) /\ UNCHANGED <<dsp, transport>>
  \/ \E l \in loads : DecodeReturn(l) /\ UNCHANGED <<dsp, transport>>
  \/ LoadHideTimeout /\ UNCHANGED <<dsp, transport>>
  \/ \E i \in ExportIds : UiFree /\ ProcessClick(i) /\ UNCHANGED <<dsp, transport>>
  \/ \E i \in ExportIds : SaveDialogDismiss(i) /\ UNCHANGED <<dsp, transport>>
  \/ \E i \in ExportIds : SaveDialogReturn(i) /\ UNCHANGED <<dsp, transport>>
  \/ \E i \in ExportIds : RenderReturn(i) /\ UNCHANGED <<dsp, transport>>
  \/ \E i \in ExportIds : RenderThrow(i) /\ UNCHANGED <<dsp, transport>>
  \/ \E i \in ExportIds : EncodeThrow(i) /\ UNCHANGED <<dsp, transport>>
  \/ \E i \in ExportIds : WriteReturn(i) /\ UNCHANGED <<dsp, transport>>
  \/ \E i \in ExportIds : WriteThrow(i) /\ UNCHANGED <<dsp, transport>>
  \/ \E i \in ExportIds : CompleteTimeout(i) /\ UNCHANGED <<dsp, transport>>
  \/ ~DialogOpen /\ ModalCancelClick /\ UNCHANGED <<dsp, transport>>
  \/ ~DialogOpen /\ CancelBtnClick /\ UNCHANGED <<dsp, transport>>

SpecExport == Init /\ [][NextExport]_vars

(***************************************************************************)
(* Claims about the export.                                                *)
(***************************************************************************)
\* C1: an export that the user cancelled while it was rendering or while its
\* file write was pending writes no output file and ends as cancelled, never
\* as completed.
C1_CancelledExportWritesNoFile ==
  \A i \in ExportIds :
    exports[i].cancelRequested =>
      /\ ~exports[i].fileWritten
      /\ "completed" \notin exports[i].reported
      /\ exports[i].pc = "done" => "cancelled" \in exports[i].reported

\* C9: every export invocation reports exactly one terminal outcome: never
\* two different ones, and one once it is done.
C9_OneTerminalOutcome ==
  \A i \in ExportIds :
    /\ Cardinality(exports[i].reported) <= 1
    /\ exports[i].pc = "done" => Cardinality(exports[i].reported) = 1

\* C10: at no time are two export invocations in progress together (between
\* the click that started them and their end).
C10_OneExportAtATime ==
  Cardinality({i \in ExportIds : exports[i].pc \in {"dialog", "render", "write"}}) <= 1

NonDecreasing(seq) == \A k \in 1..(Len(seq) - 1) : seq[k] <= seq[k + 1]

\* C11: during an export that was not cancelled, the percentages the modal is
\* given are whole numbers within 0..100 that never decrease, and 100 comes
\* only once that export's file has been written.
C11_ProgressMonotone ==
  \A i \in ExportIds :
    ~exports[i].cancelRequested =>
      /\ \A k \in 1..Len(exports[i].shown) : exports[i].shown[k] \in 0..100
      /\ NonDecreasing(exports[i].shown)
      /\ (\E k \in 1..Len(exports[i].shown) : exports[i].shown[k] = 100)
           => exports[i].fileWritten

\* C12: an export whose render or encoding threw never calls writeFileData and
\* writes no file; writeFileData is called only after the render has resolved
\* and encodeWAV has returned (90 reported).
C12_FailedRenderWritesNoFile ==
  \A i \in ExportIds :
    /\ exports[i].renderFailed => ~exports[i].writeInvoked /\ ~exports[i].fileWritten
    /\ (exports[i].writeInvoked \/ exports[i].fileWritten) =>
         \E k \in 1..Len(exports[i].progress) : exports[i].progress[k] = 90

\* an export ended by a failed render or encoding
C12_Witness ==
  \E i \in ExportIds :
    exports[i].renderFailed /\ exports[i].pc = "done" /\ "failed" \in exports[i].reported

\* C13: a click on export with no buffer loaded shows the error toast and does
\* nothing else: the invocation ends there (no dialog, no render, no file) and
\* isProcessing, processingCancelled, the button state and the modal are as
\* they were.
C13_NoAudioLoaded ==
  [][\A i \in ExportIds :
       /\ (exports[i].pc = "idle" /\ exports'[i].pc # "idle" /\ buffer = NoBuffer) =>
            /\ exports'[i] = [IdleExport EXCEPT !.pc = "rejected",
                                                !.toast = "No audio loaded"]
            /\ UNCHANGED <<isProcessing, processingCancelled, processBtnDisabled,
                           modal, loadVars>>
       /\ exports[i].pc = "rejected" => exports'[i] = exports[i]]_vars

\* a click that was turned down
C13_Witness ==
  \E i \in ExportIds :
    exports[i].pc = "rejected" /\ exports[i].toast = "No audio loaded"

(***************************************************************************)
(* The controls and the preview chain: bypass, toggles, the width slider   *)
(* and the faders, before and after a file is loaded.                      *)
(***************************************************************************)
WidthValues == {0, 50, 100, 200}
ChainToggles == {"truePeakLimit", "glueCompression", "cleanLowEnd", "addAir"}
ChainFaders == {"inputGain", "ceiling", "eqMid"}
\* a drag across the whole track, down or up
FullDrags == {-400, 400}

NextChain ==
  \/ \E f \in {"stereo.wav"} : loads = {} /\ LoadStart(f, TRUE) /\ UNCHANGED <<dsp, transport>>
  \/ \E l \in loads : ReadReturn(l) /\ UNCHANGED <<dsp, transport>>
  \/ \E l \in loads : DecodeReturn(l) /\ UNCHANGED <<dsp, transport>>
  \/ LoadHideTimeout /\ UNCHANGED <<dsp, transport>>
  \/ BypassClick /\ UNCHANGED <<dsp, transport>>
  \/ \E t \in ChainToggles : ToggleChange(t) /\ UNCHANGED <<dsp, transport>>
  \/ \E w \in WidthValues : StereoWidthInput(w) /\ UNCHANGED <<dsp, transport>>
  \/ \E f \in ChainFaders, px \in FullDrags : FaderDrag(f, px) /\ UNCHANGED <<dsp, transport>>
  \/ \E f \in ChainFaders : FaderDblClick(f) /\ UNCHANGED <<dsp, transport>>

SpecChain == Init /\ [][NextChain]_vars

\* the settings an export started now would use, and the nodes it would build
CurrentSettings ==
  Settings(checked, ceilingValueDb, stereoWidthSlider, inputGainValue, eqValues)

OfflineNodesNow == createOfflineNodes(CurrentSettings)

\* two dynamics stages process alike: same threshold and ratio, and the same
\* knee, attack and release unless the ratio is 1 (no gain reduction at all)
SameDynamics(a, b) ==
  /\ a.threshold = b.threshold
  /\ a.ratio = b.ratio
  /\ a.ratio # 1 => a = b

SameStages(a, b) ==
  /\ a.inputGain = b.inputGain
  /\ \A st \in {"highpass", "eqLow", "eqLowMid", "eqMid", "eqHighMid", "eqHigh",
                "lowshelf", "midPeak", "highshelf"} : a[st] = b[st]
  /\ SameDynamics(a.compressor, b.compressor)
  /\ SameDynamics(a.limiter, b.limiter)
  /\ \A g \in {"lToMid", "rToMid", "lToSide", "rToSide"} : a[g] = b[g]

\* C2: with bypass off, every stage of the offline graph built from the
\* current control values has the parameters of the same stage of the preview
\* graph.
C2_ExportMatchesPreview ==
  (chainCreated /\ ~isBypassed) => SameStages(OfflineNodesNow, audioNodes)

\* C3: while bypass is on, every preview stage is neutral, the input gain is
\* at unity and the width matrix is the identity (width 100%).
C3_BypassIsNeutral ==
  (chainCreated /\ isBypassed) =>
    /\ \A st \in {"eqLow", "eqLowMid", "eqMid", "eqHighMid", "eqHigh",
                  "lowshelf", "midPeak", "highshelf"} : audioNodes[st].gain = 0
    /\ audioNodes.highpass.frequency = 1
    /\ audioNodes.compressor.threshold = 0 /\ audioNodes.compressor.ratio = 1
    /\ audioNodes.limiter.threshold = 0 /\ audioNodes.limiter.ratio = 1
    /\ audioNodes.inputGain = 1000
    /\ audioNodes.lToMid = 200 /\ audioNodes.rToMid = 0
    /\ audioNodes.lToSide = 0 /\ audioNodes.rToSide = 200

\* C6: with true-peak limiting on (and bypass off) the limiter threshold is
\* the ceiling and the ratio 20, in the preview graph and in the offline graph
\* alike, for every ceiling 0 dB included; with it off, threshold 0 and ratio 1.
C6_LimiterThresholdIsCeiling ==
  /\ (chainCreated /\ ~isBypassed) =>
       IF checked["truePeakLimit"]
         THEN audioNodes.limiter.threshold = ceilingValueDb
              /\ audioNodes.limiter.ratio = 20
         ELSE audioNodes.limiter.threshold = 0 /\ audioNodes.limiter.ratio = 1
  /\ IF checked["truePeakLimit"]
       THEN OfflineNodesNow.limiter.threshold = ceilingValueDb
            /\ OfflineNodesNow.limiter.ratio = 20
       ELSE OfflineNodesNow.limiter.threshold = 0 /\ OfflineNodesNow.limiter.ratio = 1

\* the width slider over its whole range
NextWidth ==
  \/ \E f \in {"stereo.wav"} : loads = {} /\ LoadStart(f, TRUE) /\ UNCHANGED <<dsp, transport>>
  \/ \E l \in loads : ReadReturn(l) /\ UNCHANGED <<dsp, transport>>
  \/ \E l \in loads : DecodeReturn(l) /\ UNCHANGED <<dsp, transport>>
  \/ LoadHideTimeout /\ UNCHANGED <<dsp, transport>>
  \/ BypassClick /\ UNCHANGED <<dsp, transport>>
  \/ \E w \in 0..200 : StereoWidthInput(w) /\ UNCHANGED <<dsp, transport>>

SpecWidth == Init /\ [][NextWidth]_vars

\* sample values fed to the width matrix
Samples == {-3, -1, 0, 2}

\* what C8 says of the output <<L', R'>> (times 200) at width w percent
MatrixLaw(out, L, R, w) ==
  /\ out[1] = L * (100 + w) + R * (100 - w)
  /\ out[2] = L * (100 - w) + R * (100 + w)
  /\ w = 0 => out[1] = out[2] /\ out[1] = 100 * (L + R)
  /\ w = 100 => out = <<200 * L, 200 * R>>
  /\ w = 200 => out[1] - out[2] = 2 * (200 * L - 200 * R)
  /\ out[1] + out[2] = 200 * (L + R)

\* C8: for every sample pair and every width, the matrix of the offline graph
\* (built for the slider's width) and the matrix of the preview graph (set for
\* the slider's width, or for 100% under bypass) yield L' = L(0.5+0.5w) +
\* R(0.5-0.5w) and R' = L(0.5-0.5w) + R(0.5+0.5w): mono sum at 0%, identity at
\* 100%, doubled side at 200%, mid unchanged at every width.
C8_WidthMatrixLaw ==
  \A L \in Samples, R \in Samples :
    /\ MatrixLaw(WidthMatrix(OfflineNodesNow, L, R), L, R, stereoWidthSlider)
    /\ chainCreated =>
         LET w == audioNodes.lToMid - 100
         IN /\ w \in {100, stereoWidthSlider}
            /\ MatrixLaw(WidthMatrix(audioNodes, L, R), L, R, w)

\* the preview matrix set for 200%, with a file loaded and bypass off
C8_Witness ==
  chainCreated /\ ~isBypassed /\ stereoWidthSlider = 200 /\ audioNodes.lToMid = 300

(***************************************************************************)
(* Playback and export of a mono or a stereo file.                         *)
(***************************************************************************)
NextPlayback ==
  \/ \E f \in {"mono.wav", "stereo.wav"} : UiFree /\ loads = {} /\ LoadStart(f, TRUE) /\ UNCHANGED <<dsp, transport>>
  \/ \E l \in loads : ReadReturn(l) /\ UNCHANGED <<dsp, transport>>
  \/ \E l \in loads : DecodeReturn(l) /\ UNCHANGED <<dsp, transport>>
  \/ LoadHideTimeout /\ UNCHANGED <<dsp, transport>>
  \/ UiFree /\ PlayBtnClick /\ UNCHANGED <<dsp, transport>>
  \/ UiFree /\ StopBtnClick /\ UNCHANGED <<dsp, transport>>
  \/ \E time \in 0..Duration : UiFree /\ SeekTo(time) /\ UNCHANGED <<dsp, transport>>
  \/ AudioProcess /\ UNCHANGED <<dsp, transport>>
  \/ UiFree /\ ProcessClick(1) /\ UNCHANGED <<dsp, transport>>
  \/ SaveDialogDismiss(1) /\ UNCHANGED <<dsp, transport>>
  \/ SaveDialogReturn(1) /\ UNCHANGED <<dsp, transport>>
  \/ RenderReturn(1) /\ UNCHANGED <<dsp, transport>>
  \/ RenderThrow(1) /\ UNCHANGED <<dsp, transport>>
  \/ WriteReturn(1) /\ UNCHANGED <<dsp, transport>>
  \/ WriteThrow(1) /\ UNCHANGED <<dsp, transport>>
  \/ CompleteTimeout(1) /\ UNCHANGED <<dsp, transport>>

SpecPlayback == Init /\ [][NextPlayback]_vars

\* C4: after a seek during playback, and until the next block is rendered,
\* the filters of the preview chain hold no history: their state is zero.
C4_SeekResetsFilterState == seekPending => filterState = "zero"

\* the graphs that have been wired: the preview's and those of the exports
WiredGraphs ==
  {g \in {previewChain} \cup {exports[i].graph : i \in ExportIds} : g # <<>>}

IndexOf(g, st) == CHOOSE k \in 1..Len(g) : g[k] = st
Before(g, a, b) == IndexOf(g, a) < IndexOf(g, b)

FilterStages == <<"highpass", "eqLow", "eqLowMid", "eqMid", "eqHighMid", "eqHigh",
                  "lowshelf", "midPeak", "highshelf">>

C7_MonoBypassesWidth ==
  /\ (buffer.channels = 1 /\ previewChain # <<>>) =>
       \A k \in 1..Len(previewChain) : previewChain[k] # "stereoWidth"
  /\ \A i \in ExportIds :
       exports[i].buffer.channels = 1 =>
         \A k \in 1..Len(exports[i].graph) : exports[i].graph[k] # "stereoWidth"

(***************************************************************************)
(* The faders and the presets: every gesture on a fader, every preset,     *)
(* bypass, a file load and an export that snapshots the settings.          *)
(***************************************************************************)
GestureFaders == {"inputGain", "ceiling", "eqLow", "eqHigh"}
TrackQuarters == {0, 1, 4}
WheelDeltas == {-100, 100}
SpecPresets == {"flat", "bass", "warm"}

\* the controls take input while no modal covers them; the export is followed
\* to the start of its render, where it has taken its settings
NextFaders ==
  \/ \E f \in {"stereo.wav"} : UiFree /\ loads = {} /\ LoadStart(f, TRUE) /\ UNCHANGED <<dsp, transport>>
  \/ \E l \in loads : ReadReturn(l) /\ UNCHANGED <<dsp, transport>>
  \/ \E l \in loads : DecodeReturn(l) /\ UNCHANGED <<dsp, transport>>
  \/ LoadHideTimeout /\ UNCHANGED <<dsp, transport>>
  \/ UiFree /\ BypassClick /\ UNCHANGED <<dsp, transport>>
  \/ \E f \in GestureFaders, px \in FullDrags : UiFree /\ FaderDrag(f, px) /\ UNCHANGED <<dsp, transport>>
  \/ \E f \in GestureFaders, d \in WheelDeltas : UiFree /\ FaderWheel(f, d) /\ UNCHANGED <<dsp, transport>>
  \/ \E f \in GestureFaders, q \in TrackQuarters : UiFree /\ FaderTrackClick(f, q) /\ UNCHANGED <<dsp, transport>>
  \/ \E f \in GestureFaders : UiFree /\ FaderDblClick(f) /\ UNCHANGED <<dsp, transport>>
  \/ \E p \in SpecPresets : UiFree /\ PresetClick(p) /\ UNCHANGED <<dsp, transport>>
  \/ UiFree /\ ProcessClick(1) /\ UNCHANGED <<dsp, transport>>
  \/ SaveDialogReturn(1) /\ UNCHANGED <<dsp, transport>>

SpecFaders == Init /\ [][NextFaders]_vars

InputGainRange == -24..24
CeilingRange == -12..0

C15_PresetOverwritesAllBands ==
  [][/\ \A b \in EqBands : faders'[EqFader[b]] = eqValues'[b]
     /\ activePreset' # "none" => eqValues' = eqPresets[activePreset']
     /\ (eqValues' # eqValues /\ activePreset' = "none") =>
          Cardinality({b \in EqBands : eqValues'[b] # eqValues[b]}) = 1]_vars

\* a band moved by hand after a preset was chosen: the other bands still at
\* the preset's values, no preset active
C15_Witness ==
  /\ activePreset = "none"
  /\ eqValues.low = -24
  /\ \A b \in EqBands \ {"low"} : eqValues[b] = eqPresets["bass"][b]

(***************************************************************************)
(* Settings changed while the preview plays.                               *)
(***************************************************************************)
LiveToggles == {"glueCompression", "addAir"}
LiveFaders == {"inputGain", "ceiling", "eqMid"}
LiveWidths == {50, 100}

NextLive ==
  \/ \E f \in {"stereo.wav"} : UiFree /\ loads = {} /\ LoadStart(f, TRUE) /\ UNCHANGED <<dsp, transport>>
  \/ \E l \in loads : ReadReturn(l) /\ UNCHANGED <<dsp, transport>>
  \/ \E l \in loads : DecodeReturn(l) /\ UNCHANGED <<dsp, transport>>
  \/ LoadHideTimeout /\ UNCHANGED <<dsp, transport>>
  \/ UiFree /\ PlayBtnClick /\ UNCHANGED <<dsp, transport>>
  \/ UiFree /\ StopBtnClick /\ UNCHANGED <<dsp, transport>>
  \/ AudioProcess /\ UNCHANGED <<dsp, transport>>
  \/ UiFree /\ BypassClick /\ UNCHANGED <<dsp, transport>>
  \/ \E t \in LiveToggles : UiFree /\ ToggleChange(t) /\ UNCHANGED <<dsp, transport>>
  \/ UiFree /\ NormalizeChange /\ UNCHANGED <<dsp, transport>>
  \/ \E w \in LiveWidths : UiFree /\ StereoWidthInput(w) /\ UNCHANGED <<dsp, transport>>
  \/ \E f \in LiveFaders, px \in FullDrags : UiFree /\ FaderDrag(f, px) /\ UNCHANGED <<dsp, transport>>

SpecLive == Init /\ [][NextLive]_vars

\* the buffer the normalize control selects
SelectedBuffer(chk) ==
  IF chk["normalizeLoudness"] THEN fileState.normalizedBuffer
  ELSE fileState.originalBuffer

\* C16: a setting changed while the preview plays with bypass off leaves the
\* live source and its connections as they are (no rebuild, no restart) and
\* the playing graph then processes by the new value: the nodes governed by a
\* changed toggle, band, input gain, ceiling or width carry it, and the live
\* source plays the buffer the normalize control selects.
C16_LiveUpdates ==
  [][(isPlaying /\ source # 0 /\ chainCreated /\ ~isBypassed /\ ~isBypassed') =>
       /\ (<<checked, eqValues, inputGainValue, ceilingValueDb, stereoWidthSlider>>' #
             <<checked, eqValues, inputGainValue, ceilingValueDb, stereoWidthSlider>>)
            => UNCHANGED <<source, previewChain, isPlaying, position, filterState,
                           chainCreated>>
       /\ (\E t \in ToggleIds \ {"normalizeLoudness"} : checked'[t] # checked[t])
            => audioNodes' = updateAudioChain(audioNodes', checked', FALSE,
                                              ceilingValueDb')
       /\ (checked'["normalizeLoudness"] # checked["normalizeLoudness"])
            => sourceBuffer' = SelectedBuffer(checked')
       /\ (eqValues' # eqValues)
            => audioNodes' = updateEQ(audioNodes', FALSE, eqValues')
       /\ (inputGainValue' # inputGainValue)
            => audioNodes'.inputGain = dbToLinear(inputGainValue')
       /\ (ceilingValueDb' # ceilingValueDb)
            => audioNodes'.limiter.threshold =
                 IF checked'["truePeakLimit"] THEN ceilingValueDb' ELSE 0
       /\ (stereoWidthSlider' # stereoWidthSlider)
            => audioNodes' = updateStereoWidth(audioNodes', FALSE, stereoWidthSlider')
    ]_vars

(***************************************************************************)
(* Every combination of the toggles, bypass on and off, preview wired by   *)
(* play and an export wired by renderOffline.                              *)
(***************************************************************************)
NextTopology ==
  \/ \E f \in {"stereo.wav"} : UiFree /\ loads = {} /\ LoadStart(f, TRUE) /\ UNCHANGED <<dsp, transport>>
  \/ \E l \in loads : ReadReturn(l) /\ UNCHANGED <<dsp, transport>>
  \/ \E l \in loads : DecodeReturn(l) /\ UNCHANGED <<dsp, transport>>
  \/ LoadHideTimeout /\ UNCHANGED <<dsp, transport>>
  \/ UiFree /\ PlayBtnClick /\ UNCHANGED <<dsp, transport>>
  \/ UiFree /\ StopBtnClick /\ UNCHANGED <<dsp, transport>>
  \/ UiFree /\ BypassClick /\ UNCHANGED <<dsp, transport>>
  \/ \E t \in ToggleIds \ {"normalizeLoudness"} : UiFree /\ ToggleChange(t) /\ UNCHANGED <<dsp, transport>>
  \/ UiFree /\ ProcessClick(1) /\ UNCHANGED <<dsp, transport>>
  \/ SaveDialogDismiss(1) /\ UNCHANGED <<dsp, transport>>
  \/ SaveDialogReturn(1) /\ UNCHANGED <<dsp, transport>>
  \/ RenderReturn(1) /\ UNCHANGED <<dsp, transport>>
  \/ WriteReturn(1) /\ UNCHANGED <<dsp, transport>>
  \/ CompleteTimeout(1) /\ UNCHANGED <<dsp, transport>>

SpecTopology == Init /\ [][NextTopology]_vars

\* the fixed design of the nine filters, in the order of the signal path
FilterDesign(n) ==
  /\ n.highpass.type = "highpass"
  /\ n.eqLow.type = "lowshelf" /\ n.eqLow.frequency = 80
  /\ n.eqLowMid.type = "peaking" /\ n.eqLowMid.frequency = 250
  /\ n.eqMid.type = "peaking" /\ n.eqMid.frequency = 1000
  /\ n.eqHighMid.type = "peaking" /\ n.eqHighMid.frequency = 4000
  /\ n.eqHigh.type = "highshelf" /\ n.eqHigh.frequency = 12000
  /\ n.lowshelf.type = "peaking" /\ n.lowshelf.frequency = 250
  /\ n.midPeak.type = "peaking" /\ n.midPeak.frequency = 5000
  /\ n.highshelf.type = "highshelf" /\ n.highshelf.frequency = 12000

\* the parameters of the stages that are switched off (on[t]: stage t works)
DisabledStagesNeutral(n, on) ==
  /\ ~on["glueCompression"] => n.compressor.threshold = 0 /\ n.compressor.ratio = 1
  /\ ~on["truePeakLimit"] => n.limiter.threshold = 0 /\ n.limiter.ratio = 1
  /\ ~on["cleanLowEnd"] => n.highpass.frequency = 1
  /\ ~on["cutMud"] => n.lowshelf.gain = 0
  /\ ~on["tameHarsh"] => n.midPeak.gain = 0
  /\ ~on["addAir"] => n.highshelf.gain = 0

\* C17: whatever the toggles and the bypass flag, a wired graph (preview or
\* export) is input gain, highpass, low-shelf 80, peaking 250, peaking 1000,
\* peaking 4000, high-shelf 12000, mud-cut, harshness-tame, air-boost,
\* compressor, width matrix, limiter; a stage that is off stays in the path
\* with threshold 0 dB and ratio 1 (compressor, limiter), corner 1 Hz
\* (highpass) or gain 0 dB (polish filters).
C17_TopologyFixed ==
  /\ previewChain # <<>> =>
       previewChain = <<"inputGain">> \o FilterStages
                        \o <<"compressor", "stereoWidth", "limiter">>
  /\ chainCreated =>
       /\ FilterDesign(audioNodes)
       /\ DisabledStagesNeutral(audioNodes, [t \in ToggleIds |-> checked[t] /\ ~isBypassed])
  /\ \A i \in ExportIds :
       exports[i].graph # <<>> =>
         /\ exports[i].graph = previewChain \/ previewChain = <<>>
         /\ exports[i].graph = <<"inputGain">> \o FilterStages
                                  \o <<"compressor", "stereoWidth", "limiter">>
         /\ FilterDesign(exports[i].nodes)
         /\ DisabledStagesNeutral(exports[i].nodes,
                                  [t \in ToggleIds |-> exports[i].settings[t]])

\* a preview wired with the compressor off and bypass on, beside an export
\* wired with every toggle off
C17_Witness ==
  /\ previewChain # <<>> /\ isBypassed /\ ~checked["glueCompression"]
  /\ exports[1].graph # <<>>
  /\ \A t \in ToggleIds \ {"normalizeLoudness"} : ~exports[1].settings[t]

(***************************************************************************)
(* The sample-level functions.  A sample is an integer count of 1e-4, so   *)
(* a power (a mean square) is a count of 1e-8; filter coefficients are     *)
(* thousandths.  The code computes the same steps in floating point.       *)
(* An AudioBuffer is held in a heap, dsp.heap, and is known by its index:  *)
(* two references to one buffer are one index.                             *)
(***************************************************************************)
MaxLen == 6

\* sample rates small enough that a 400 ms block is four or six samples;
\* measureLUFS reads the rate only for the coefficients and the block sizes
SampleRates == {12, 16}

\* a loud sample, silence, and a sample near the absolute gate
SampleValues == {-40, 0, 8}

\* Math.pow(10, -7), the absolute gate, as a count of 1e-8
AbsoluteGate == 10

\* the nearest integer to n / d (d > 0), halves upwards
RoundDiv(n, d) == (2 * n + d) \div (2 * d)

\* the array whose elements are those of the sequence q, each computed once
ArrayOf(q) == q \o <<>>

RECURSIVE SumSeq(_)
SumSeq(q) == IF q = <<>> THEN 0 ELSE Head(q) + SumSeq(Tail(q))

\* calcHighShelfCoeffs(sampleRate, 1681.97, 4.0, 0.71), each coefficient
\* divided by a0, at the modelled rates
calcHighShelfCoeffs(sampleRate) ==
  CASE sampleRate = 12 -> [b0 |-> 1355, b1 |-> -1026, b2 |-> 375, a1 |-> -518, a2 |-> 221]
    [] sampleRate = 16 -> [b0 |-> 1406, b1 |-> -1486, b2 |-> 531, a1 |-> -854, a2 |-> 305]

\* calcHighPassCoeffs(sampleRate, 38.14, 0.5) at the modelled rates
calcHighPassCoeffs(sampleRate) ==
  CASE sampleRate = 12 -> [b0 |-> 378, b1 |-> -755, b2 |-> 378, a1 |-> -458, a2 |-> 52]
    [] sampleRate = 16 -> [b0 |-> 77, b1 |-> -153, b2 |-> 77, a1 |-> 894, a2 |-> 200]

\* the loop of applyBiquadFilter from sample i on
RECURSIVE BiquadLoop(_, _, _, _, _, _, _, _)
BiquadLoop(samples, c, i, x1, x2, y1, y2, output) ==
  IF i > Len(samples) THEN output
  ELSE LET x0 == samples[i]
           y0 == RoundDiv(c.b0 * x0 + c.b1 * x1 + c.b2 * x2 - c.a1 * y1 - c.a2 * y2,
                          1000)
       IN BiquadLoop(samples, c, i + 1, x0, x1, y0, y1, Append(output, y0))

\* a filter that writes its result over the samples it was given
applyBiquadFilter_InPlace(samples, coeffs) ==
  LET output == BiquadLoop(samples, coeffs, 1, 0, 0, 0, 0, <<>>)
  IN [samples |-> output, output |-> output]

\* applyBiquadFilter(samples, coeffs): a new array takes the output; the
\* value tells both what the array passed in holds afterwards and the result
applyBiquadFilter(samples, coeffs) ==
  [samples |-> samples,
   output |-> BiquadLoop(samples, coeffs, 1, 0, 0, 0, 0, <<>>)]

blockSizeOf(sampleRate) == (sampleRate * 4) \div 10     \* Math.floor(sampleRate * 0.4)
hopSizeOf(sampleRate) == sampleRate \div 10             \* Math.floor(sampleRate * 0.1)

\* the value measureLUFS returns for no blocks or for an empty gated list
NegInfinity == [finite |-> FALSE, num |-> 0, den |-> 1]

\* measureLUFS(audioBuffer).  lufs: -Infinity, or -0.691 + 10 log10 of the
\* gated mean power num / den (a count of 1e-8); channels: what the channel
\* arrays of audioBuffer hold when the function returns.
measureLUFS(audioBuffer) ==
  LET sampleRate == audioBuffer.sampleRate
      numChannels == audioBuffer.numberOfChannels
      length == audioBuffer.length
      highShelfCoeffs == calcHighShelfCoeffs(sampleRate)
      highPassCoeffs == calcHighPassCoeffs(sampleRate)
      shelved == ArrayOf([ch \in 1..numChannels |->
                    applyBiquadFilter(audioBuffer.channels[ch], highShelfCoeffs)])
      passed == ArrayOf([ch \in 1..numChannels |->
                   applyBiquadFilter(shelved[ch].output, highPassCoeffs)])
      filteredChannels == ArrayOf([ch \in 1..numChannels |-> passed[ch].output])
      blockSize == blockSizeOf(sampleRate)
      hopSize == hopSizeOf(sampleRate)
      numBlocks == IF blockSize > length THEN 0
                   ELSE (length - blockSize) \div hopSize + 1
      \* sumSquares of the block at start; its power is this over perBlock
      sumSquares(start) ==
        SumSeq([ch \in 1..numChannels |->
                  SumSeq([i \in 1..blockSize |->
                            filteredChannels[ch][start + i] * filteredChannels[ch][start + i]])])
      perBlock == blockSize * numChannels
      blocks == ArrayOf([k \in 1..numBlocks |-> sumSquares((k - 1) * hopSize)])
      aboveAbsolute(ss) == ss > AbsoluteGate * perBlock
      gated == SelectSeq(blocks, aboveAbsolute)
      \* ms > ungatedMean * 0.1
      aboveRelative(ss) == 10 * ss * Len(gated) > SumSeq(gated)
      gatedBlocks == SelectSeq(gated, aboveRelative)
      lufs == IF numBlocks = 0 THEN NegInfinity
              ELSE IF Len(gated) = 0 THEN NegInfinity
              ELSE IF Len(gatedBlocks) = 0 THEN NegInfinity
              ELSE [finite |-> TRUE, num |-> SumSeq(gatedBlocks),
                    den |-> Len(gatedBlocks) * perBlock]
  IN [lufs |-> lufs,
      channels |-> ArrayOf([ch \in 1..numChannels |-> shelved[ch].samples])]

\* the AudioBuffer holding the given channel arrays
AudioBufferOf(sampleRate, channels) ==
  [sampleRate |-> sampleRate, numberOfChannels |-> Len(channels),
   length |-> Len(channels[1]), channels |-> channels]

\* mono and two-channel buffers of up to MaxLen frames
LoudnessBuffers ==
  { AudioBufferOf(sr, chans) :
      sr \in SampleRates,
      chans \in UNION { UNION { { <<c>>, <<c, c>>, <<c, [i \in 1..n |-> 0]>> } :
                                  c \in [1..n -> SampleValues] } : n \in 0..MaxLen } }

InitLoudness ==
  /\ InitApp
  /\ dsp \in { [fn |-> "none", heap |-> <<b>>, given |-> b, opts |-> <<>>, ret |-> <<>>] :
                 b \in LoudnessBuffers }

\* measureLUFS(buffer 1) runs to its return
MeasureCall ==
  /\ dsp.fn = "none"
  /\ LET m == measureLUFS(dsp.heap[1])
     IN dsp' = [dsp EXCEPT !.fn = "measureLUFS",
                           !.heap[1].channels = m.channels,
                           !.ret = m.lufs]
  /\ UNCHANGED appVars

\* the largest r in lo..hi with r * r <= x (lo * lo <= x)
RECURSIVE SqrtIn(_, _, _)
SqrtIn(x, lo, hi) ==
  IF lo = hi THEN lo
  ELSE LET mid == (lo + hi + 1) \div 2
       IN IF mid * mid <= x THEN SqrtIn(x, mid, hi) ELSE SqrtIn(x, lo, mid - 1)

\* Math.pow(10, (targetLUFS - currentLUFS) / 20) for targetLUFS = -14, in
\* tenths: the square root of 10^(-1.3309) / (num / den * 1e-8) * 100
gainLinearOf(lufs) == SqrtIn((466760000 \div lufs.num) * lufs.den, 0, 46000)

\* a normalizer that scales the samples of the buffer it was given
NormalizeToLUFS_InPlace(heap, audioBuffer) ==
  LET m == measureLUFS(heap[audioBuffer])
      measured == [heap EXCEPT ![audioBuffer].channels = m.channels]
  IN IF ~m.lufs.finite THEN [heap |-> measured, ret |-> audioBuffer]
     ELSE [heap |-> [measured EXCEPT ![audioBuffer].channels =
                       [ch \in 1..measured[audioBuffer].numberOfChannels |->
                          [i \in 1..measured[audioBuffer].length |->
                             RoundDiv(measured[audioBuffer].channels[ch][i]
                                        * gainLinearOf(m.lufs), 10)]]],
           ret |-> audioBuffer]

\* normalizeToLUFS(audioBuffer, -14) on the buffer heap[audioBuffer]: the
\* heap when it returns, and the index of the buffer it returns
NormalizeToLUFS(heap, audioBuffer) ==
  LET m == measureLUFS(heap[audioBuffer])
      measured == [heap EXCEPT ![audioBuffer].channels = m.channels]
      input == measured[audioBuffer]
      gainLinear == gainLinearOf(m.lufs)
      \* ctx.createBuffer(numberOfChannels, length, sampleRate), then the loop
      normalizedBuffer ==
        [sampleRate |-> input.sampleRate,
         numberOfChannels |-> input.numberOfChannels,
         length |-> input.length,
         channels |-> ArrayOf([ch \in 1..input.numberOfChannels |->
                         ArrayOf([i \in 1..input.length |->
                            RoundDiv(input.channels[ch][i] * gainLinear, 10)])])]
  IN IF ~m.lufs.finite
       THEN [heap |-> measured, ret |-> audioBuffer]
       ELSE [heap |-> Append(measured, normalizedBuffer), ret |-> Len(measured) + 1]

\* loadAudioFile: normalizeToLUFS(decodedBuffer, -14) runs to its return
NormalizeCall ==
  /\ dsp.fn = "none"
  /\ LET r == NormalizeToLUFS(dsp.heap, 1)
     IN dsp' = [dsp EXCEPT !.fn = "normalizeToLUFS", !.heap = r.heap, !.ret = r.ret]
  /\ UNCHANGED appVars

NextLoudness ==
  \/ MeasureCall
  \/ NormalizeCall

SpecLoudness == InitLoudness /\ [][NextLoudness]_vars

\* the K-weighted channels of a buffer
KWeighted(b) ==
  ArrayOf([ch \in 1..b.numberOfChannels |->
     applyBiquadFilter(
       applyBiquadFilter(b.channels[ch], calcHighShelfCoeffs(b.sampleRate)).output,
       calcHighPassCoeffs(b.sampleRate)).output])

\* the starts of the 400 ms blocks of a buffer, 100 ms apart
BlockStarts(b) ==
  { start \in 0..b.length :
      /\ start % hopSizeOf(b.sampleRate) = 0
      /\ start + blockSizeOf(b.sampleRate) <= b.length }

\* the block at start has mean power above 1e-7
BlockAboveGate(b, start) ==
  LET k == KWeighted(b)
      n == blockSizeOf(b.sampleRate)
      energy == SumSeq([ch \in 1..b.numberOfChannels |->
                          SumSeq([i \in 1..n |-> k[ch][start + i] * k[ch][start + i]])])
  IN energy > AbsoluteGate * n * b.numberOfChannels

\* C18: measureLUFS returns negative infinity exactly when the buffer is
\* shorter than one 400 ms block or no block has power above the absolute
\* gate 1e-7; in every other case it returns a finite value (the logarithm
\* of a positive mean power); and the samples of the buffer it measured are
\* what they were before the call.
C18_MeasureLUFS ==
  dsp.fn = "measureLUFS" =>
    /\ ~dsp.ret.finite <=>
         \/ dsp.given.length < blockSizeOf(dsp.given.sampleRate)
         \/ \A start \in BlockStarts(dsp.given) : ~BlockAboveGate(dsp.given, start)
    /\ dsp.ret.finite => dsp.ret.num > 0 /\ dsp.ret.den > 0
    /\ dsp.heap = <<dsp.given>>

\* a finite loudness measured on a two-channel buffer of several blocks, one
\* of them below the absolute gate
C18_Witness ==
  /\ dsp.fn = "measureLUFS" /\ dsp.ret.finite
  /\ dsp.given.numberOfChannels = 2
  /\ \E s1, s2 \in BlockStarts(dsp.given) :
       BlockAboveGate(dsp.given, s1) /\ ~BlockAboveGate(dsp.given, s2)

\* C19: normalizeToLUFS leaves the buffer it is given as it was; when the
\* measured loudness is not finite it returns that same buffer and makes no
\* other; when it is finite it returns a new buffer with the channel count,
\* length and sample rate of the given one, so the original (buffer 1, which
\* loadAudioFile keeps as fileState.originalBuffer) still holds the samples
\* that were decoded.
C19_NormalizeToLUFS ==
  dsp.fn = "normalizeToLUFS" =>
    LET currentLUFS == measureLUFS(dsp.given).lufs
    IN /\ dsp.heap[1] = dsp.given
       /\ ~currentLUFS.finite => dsp.ret = 1 /\ Len(dsp.heap) = 1
       /\ currentLUFS.finite =>
            /\ dsp.ret = 2 /\ Len(dsp.heap) = 2
            /\ dsp.heap[2].numberOfChannels = dsp.given.numberOfChannels
            /\ dsp.heap[2].length = dsp.given.length
            /\ dsp.heap[2].sampleRate = dsp.given.sampleRate
            /\ Len(dsp.heap[2].channels) = dsp.given.numberOfChannels
            /\ \A ch \in 1..dsp.given.numberOfChannels :
                 Len(dsp.heap[2].channels[ch]) = dsp.given.length

\* a two-channel buffer of finite loudness was normalized: the buffer
\* returned is a second one, with other samples
C19_Witness ==
  /\ dsp.fn = "normalizeToLUFS" /\ dsp.ret = 2
  /\ dsp.given.numberOfChannels = 2
  /\ dsp.heap[2].channels # dsp.given.channels

(***************************************************************************)
(* encodeWAV(audioBuffer, targetSampleRate, bitDepth).  A sample of the    *)
(* buffer to encode is a count of 1 / WavScale; a byte is 0..255.          *)
(***************************************************************************)
MaxFrames == 2

WavScale == 8

\* below -1, a tie on the negative side, silence, an ordinary value, above 1
WavSamples == {-9, -4, 0, 3, 12}

\* the rates and depths of the output format selectors
WavRates == {44100, 48000}
WavDepths == {16, 24}

RECURSIVE Pow256(_)
Pow256(k) == IF k = 0 THEN 1 ELSE 256 * Pow256(k - 1)

\* DataView.setUint16 / setUint32 / setInt16 with littleEndian = true: the
\* n bytes of v (two's complement when v is negative), lowest first
LittleEndian(v, n) == [k \in 1..n |-> (v \div Pow256(k - 1)) % 256]

\* writeString(offset, str): the character codes
RIFF == <<82, 73, 70, 70>>
WAVE == <<87, 65, 86, 69>>
FmtChunk == <<102, 109, 116, 32>>
DataChunk == <<100, 97, 116, 97>>

maxValOf(bitDepth) == IF bitDepth = 16 THEN 32767 ELSE 8388607

\* Math.round(Math.max(-1, Math.min(1, sample)) * maxVal)
intSampleOf(sample, bitDepth) ==
  LET clamped == IF sample < -WavScale THEN -WavScale
                 ELSE IF sample > WavScale THEN WavScale ELSE sample
  IN RoundDiv(clamped * maxValOf(bitDepth), WavScale)

\* the bytes of one sample written highest byte first
PCMBytes_BigEndian(intSample, bitDepth) ==
  IF bitDepth = 16
    THEN <<(intSample \div 256) % 256, intSample % 256>>
    ELSE <<(intSample \div 65536) % 256, (intSample \div 256) % 256, intSample % 256>>

\* the bytes of one sample: setInt16(offset, intSample, true), or the three
\* setUint8 of intSample & 0xFF, (intSample >> 8) & 0xFF, (intSample >> 16) & 0xFF
PCMBytes(intSample, bitDepth) ==
  IF bitDepth = 16
    THEN LittleEndian(intSample, 2)
    ELSE IF bitDepth = 24
      THEN <<intSample % 256, (intSample \div 256) % 256, (intSample \div 65536) % 256>>
      ELSE <<>>

\* the sample loop from frame i, channel ch on
RECURSIVE SampleBytes(_, _, _, _)
SampleBytes(channelData, i, ch, bitDepth) ==
  IF i > Len(channelData[1]) THEN <<>>
  ELSE PCMBytes(intSampleOf(channelData[ch][i], bitDepth), bitDepth)
         \o (IF ch < Len(channelData)
               THEN SampleBytes(channelData, i, ch + 1, bitDepth)
               ELSE SampleBytes(channelData, i + 1, 1, bitDepth))

encodeWAV(audioBuffer, targetSampleRate, bitDepth) ==
  LET numChannels == audioBuffer.numberOfChannels
      sampleRate == IF targetSampleRate # 0 THEN targetSampleRate
                    ELSE audioBuffer.sampleRate
      bytesPerSample == bitDepth \div 8
      channelData == audioBuffer.channels
      numSamples == Len(channelData[1])
      dataSize == numSamples * numChannels * bytesPerSample
  IN ArrayOf(RIFF \o LittleEndian(36 + dataSize, 4) \o WAVE
       \o FmtChunk \o LittleEndian(16, 4) \o LittleEndian(1, 2)
       \o LittleEndian(numChannels, 2)
       \o LittleEndian(sampleRate, 4)
       \o LittleEndian(sampleRate * numChannels * bytesPerSample, 4)
       \o LittleEndian(numChannels * bytesPerSample, 2)
       \o LittleEndian(bitDepth, 2)
       \o DataChunk \o LittleEndian(dataSize, 4)
       \o SampleBytes(channelData, 1, 1, bitDepth))

\* the buffers renderOffline may hand to encodeWAV, one-channel ones added
WavBuffers(sampleRate) ==
  { AudioBufferOf(sampleRate, chans) :
      chans \in UNION { [1..numChannels -> [1..n -> WavSamples]] :
                          numChannels \in {1, 2}, n \in 0..MaxFrames } }

InitWav ==
  /\ InitApp
  /\ \E rate \in WavRates, depth \in WavDepths :
       \E b \in WavBuffers(rate) :
         dsp = [fn |-> "none", heap |-> <<b>>, given |-> b,
                opts |-> [targetSampleRate |-> rate, bitDepth |-> depth],
                ret |-> <<>>]

\* renderOffline: encodeWAV(renderedBuffer, targetSampleRate, bitDepth) returns
EncodeCall ==
  /\ dsp.fn = "none"
  /\ dsp' = [dsp EXCEPT !.fn = "encodeWAV",
                        !.ret = encodeWAV(dsp.heap[1], dsp.opts.targetSampleRate,
                                          dsp.opts.bitDepth)]
  /\ UNCHANGED appVars

NextWav == EncodeCall

SpecWav == InitWav /\ [][NextWav]_vars

\* a WAVE reader: the n bytes after offset as an unsigned little-endian integer
ReadUnsigned(bytes, offset, n) ==
  SumSeq([k \in 1..n |-> bytes[offset + k] * Pow256(k - 1)])

\* ... and as a signed (two's complement) one
ReadSigned(bytes, offset, n) ==
  LET u == ReadUnsigned(bytes, offset, n)
  IN IF 2 * u >= Pow256(n) THEN u - Pow256(n) ELSE u

\* round(clamp(sample) * (2^(bits-1) - 1)) for a sample of x / WavScale
Quantized(x, bits) ==
  LET full == (IF bits = 16 THEN 128 * 256 ELSE 128 * 256 * 256) - 1
      c == IF x < -WavScale THEN -WavScale ELSE IF x > WavScale THEN WavScale ELSE x
      near == (c * full) \div WavScale
  IN CHOOSE q \in (near - 1)..(near + 1) :
       /\ 2 * WavScale * q <= 2 * c * full + WavScale
       /\ 2 * c * full + WavScale < 2 * WavScale * (q + 1)

\* C20: for 16 and 24 bits and one or two channels, the bytes encodeWAV
\* returns are 44 + frames * channels * bytesPerSample long; read as
\* little-endian integers the header gives the channel count (at 22), the
\* sample rate (24), channels * bytesPerSample as block alignment (32) and
\* the bit depth (34), and the data, frame by frame and channel by channel
\* within a frame, gives round(clamp(sample) * (2^(bits-1) - 1)) as a signed
\* integer for every sample, negative and out-of-range ones included.
C20_EncodeWAVRoundTrip ==
  dsp.fn = "encodeWAV" =>
    LET b == dsp.given
        bits == dsp.opts.bitDepth
        bytesPerSample == bits \div 8
        bytes == dsp.ret
    IN /\ Len(bytes) = 44 + b.length * b.numberOfChannels * bytesPerSample
       /\ \A k \in 1..Len(bytes) : bytes[k] \in 0..255
       /\ ReadUnsigned(bytes, 22, 2) = b.numberOfChannels
       /\ ReadUnsigned(bytes, 24, 4) = dsp.opts.targetSampleRate
       /\ ReadUnsigned(bytes, 32, 2) = b.numberOfChannels * bytesPerSample
       /\ ReadUnsigned(bytes, 34, 2) = bits
       /\ \A i \in 1..b.length, ch \in 1..b.numberOfChannels :
            ReadSigned(bytes,
                       44 + ((i - 1) * b.numberOfChannels + (ch - 1)) * bytesPerSample,
                       bytesPerSample)
              = Quantized(b.channels[ch][i], bits)

\* a 24-bit two-channel encoding of two frames or more holding a negative
\* sample and one above full scale
C20_Witness ==
  /\ dsp.fn = "encodeWAV" /\ dsp.opts.bitDepth = 24
  /\ dsp.given.numberOfChannels = 2 /\ dsp.given.length >= 2
  /\ dsp.given.channels[1][1] > WavScale
  /\ dsp.given.channels[2][2] < 0
  /\ Len(dsp.ret) > 44

(***************************************************************************)
(* Claims about the controls and the graphs they govern.                   *)
(***************************************************************************)
\* C22: switching the Mono Bass (centerBass) toggle changes the processing:
\* with every other control as it is, the preview graph updated with the
\* toggle on differs from the one updated with it off, or the offline graph
\* built from the settings with it on differs from the one built with it off.
C22_MonoBassChangesProcessing ==
  chainCreated =>
    LET on == [checked EXCEPT !["centerBass"] = TRUE]
        off == [checked EXCEPT !["centerBass"] = FALSE]
        offlineWith(chk) ==
          createOfflineNodes(Settings(chk, ceilingValueDb, stereoWidthSlider,
                                      inputGainValue, eqValues))
    IN \/ updateAudioChain(audioNodes, on, isBypassed, ceilingValueDb)
            # updateAudioChain(audioNodes, off, isBypassed, ceilingValueDb)
       \/ offlineWith(on) # offlineWith(off)

\* C23: whenever the preview chain exists, the gain of its input-gain node
\* is 10^(inputGainValue / 20) for the current value of the input gain fader.
C23_InputGainFollowsFader ==
  chainCreated => audioNodes.inputGain = dbToLinear(inputGainValue)

\* C24: whenever the preview chain exists and bypass is off, the four gains
\* of the width matrix are those of the current slider value: 0.5 +/- 0.5 *
\* slider / 100 (in units of 1/200: 100 +/- slider).
C24_WidthFollowsSlider ==
  (chainCreated /\ ~isBypassed) =>
    /\ audioNodes.lToMid = 100 + stereoWidthSlider
    /\ audioNodes.rToMid = 100 - stereoWidthSlider
    /\ audioNodes.lToSide = 100 - stereoWidthSlider
    /\ audioNodes.rToSide = 100 + stereoWidthSlider

\* C25: once a file is loaded, audioNodes.buffer is the normalized buffer of
\* fileState when the normalize-loudness box is checked and the original
\* buffer when it is not.
C25_BufferFollowsNormalize ==
  (buffer # NoBuffer /\ loads = {}) => buffer = SelectedBuffer(checked)

(***************************************************************************)
(* Loading files one after another and over one another: a load may be     *)
(* started whenever the window takes input, which it does again as soon as *)
(* the hide timer of an earlier load has fired.  Between loads the user    *)
(* may switch the normalize-loudness box, which selects among the buffers  *)
(* of fileState.                                                           *)
(***************************************************************************)
NextLoad ==
  \/ \E f \in Files, stopFirst \in BOOLEAN : UiFree /\ LoadStart(f, stopFirst) /\ UNCHANGED <<dsp, transport>>
  \/ \E l \in loads : ReadReturn(l) /\ UNCHANGED <<dsp, transport>>
  \/ \E l \in loads : LoadThrow(l) /\ UNCHANGED <<dsp, transport>>
  \/ \E l \in loads : DecodeReturn(l) /\ UNCHANGED <<dsp, transport>>
  \/ LoadHideTimeout /\ UNCHANGED <<dsp, transport>>
  \/ UiFree /\ NormalizeChange /\ UNCHANGED <<dsp, transport>>

SpecLoad == Init /\ [][NextLoad]_vars

\* C29: once no load is pending, the loaded buffer and the original and
\* normalized buffers of fileState are those of the file named by
\* fileState.selectedFilePath.
C29_BuffersBelongToSelectedFile ==
  (loads = {} /\ buffer # NoBuffer) =>
    /\ buffer.file = fileState.selectedFilePath
    /\ fileState.originalBuffer.file = fileState.selectedFilePath
    /\ fileState.normalizedBuffer.file = fileState.selectedFilePath

(***************************************************************************)
(* The player at the level of its timers, source nodes and animation       *)
(* frames.  transport.nodes are the AudioBufferSourceNodes created so far: *)
(* a node is "playing", has "ended" (it played to the end of its buffer)   *)
(* or was "stopped" (stop() was called on it), in both cases with its      *)
(* 'ended' event still to be dispatched, or is "done".  transport.live is  *)
(* the node audioNodes.source refers to, 0 for null.  transport.timers are *)
(* the interval timers that are active; transport.frame says that a       *)
(* requestAnimationFrame callback is scheduled.  transport.atEnd records   *)
(* that the end of the buffer was observed and the user has done nothing   *)
(* since.                                                                  *)
(***************************************************************************)
clearInterval_Noop(t, id) == t

clearInterval(t, id) == [t EXCEPT !.timers = @ \ {id}]

\* setInterval(callback, 100): a new timer, whose id the caller stores
setInterval(t) ==
  [t EXCEPT !.timers = @ \cup {t.nextTimer},
            !.seekUpdateInterval = t.nextTimer,
            !.nextTimer = @ + 1]

\* updateLevelMeter(): returns at once unless playing, else draws and
\* requests the next frame
updateLevelMeter(t, playing) ==
  IF ~playing THEN t ELSE [t EXCEPT !.animationId = TRUE, !.frame = TRUE]

startMeter(t, playing) ==
  IF ~t.animationId THEN updateLevelMeter(t, playing) ELSE t

stopMeter(t) ==
  IF t.animationId THEN [t EXCEPT !.animationId = FALSE, !.frame = FALSE] ELSE t

\* source.stop() on the node audioNodes.source refers to: a node that is
\* playing ends and queues its 'ended' event; one that is over throws
stopSource(t) ==
  IF t.live # 0 /\ t.nodes[t.live].state = "playing"
    THEN [t EXCEPT !.nodes[t.live].state = "stopped"]
    ELSE t

\* the part of stopAudio() that is not in playerVars
stopAudio(t) ==
  clearInterval([stopSource(t) EXCEPT !.live = 0], t.seekUpdateInterval)

\* createBufferSource(); onended = handler; start(0, offset)
createBufferSource(t, handler, offset) ==
  [t EXCEPT !.nodes = Append(@, [state |-> IF offset >= Duration THEN "ended"
                                                                 ELSE "playing",
                                 onended |-> handler]),
            !.live = Len(t.nodes) + 1]

\* playAudio() past its guard
playAudio(t, offset) ==
  LET started == startMeter(createBufferSource(stopAudio(t), "playAudio", offset), TRUE)
  IN setInterval(clearInterval(started, started.seekUpdateInterval))

\* the isPlaying branch of seekTo(time)
seekTo(t, time) ==
  LET silenced == IF t.live # 0
                    THEN stopSource([t EXCEPT !.nodes[t.live].onended = "null"])
                    ELSE t
      cleared == clearInterval(silenced, silenced.seekUpdateInterval)
      started == createBufferSource(cleared, "seekTo", time)
  IN setInterval(clearInterval(started, started.seekUpdateInterval))

\* playBtn click, whole: pauseAudio() or playAudio()
PlayClick ==
  /\ (~isPlaying /\ buffer # NoBuffer /\ context) => Len(transport.nodes) < MaxSources
  /\ PlayBtnClick
  /\ transport' =
       [(IF isPlaying
           THEN stopMeter(stopAudio(transport))
           ELSE IF buffer = NoBuffer \/ ~context
                  THEN transport
                  ELSE playAudio(transport, pauseTime))
        EXCEPT !.atEnd = FALSE]

\* stopBtn click, whole
StopClick ==
  /\ StopBtnClick
  /\ transport' = [stopMeter(stopAudio(transport)) EXCEPT !.seekBar = 0, !.atEnd = FALSE]

\* a click or a drag on the waveform, whole
Seek(time) ==
  /\ isPlaying => Len(transport.nodes) < MaxSources
  /\ SeekTo(time)
  /\ transport' = [(IF isPlaying THEN seekTo(transport, time) ELSE transport)
                   EXCEPT !.atEnd = FALSE]

\* changeFileBtn click or drop: stopAudio(); pauseTime = 0; loadFile(f)
ChangeFile(f) ==
  /\ LoadStart(f, TRUE)
  /\ transport' = [stopAudio(transport) EXCEPT !.atEnd = FALSE]

\* the audio thread renders a block; a source that reaches the end of its
\* buffer ends
RenderQuantum ==
  /\ AudioProcess
  /\ transport' = IF position' >= Duration /\ transport.live # 0
                    THEN [transport EXCEPT !.nodes[transport.live].state = "ended"]
                    ELSE transport

\* the 'ended' event of node n is dispatched to the handler n carries
EndedEvent(n) ==
  /\ n \in DOMAIN transport.nodes
  /\ transport.nodes[n].state \in {"ended", "stopped"}
  /\ LET node == transport.nodes[n]
         gone == [transport EXCEPT !.nodes[n].state = "done"]
         cleared == clearInterval(gone, gone.seekUpdateInterval)
     IN IF node.onended = "null" \/ ~isPlaying
          THEN /\ transport' = gone
               /\ UNCHANGED isPlaying
          ELSE /\ isPlaying' = FALSE
               /\ transport' =
                    [(IF node.onended = "playAudio" THEN stopMeter(cleared) ELSE cleared)
                     EXCEPT !.atEnd = (node.state = "ended" /\ n = transport.live)]
  /\ UNCHANGED <<pauseTime, position, source, sourceBuffer, seekPending>>
  /\ UNCHANGED <<ctlVars, chainVars, graphVars, loadVars, exportVars>>

\* the callback of interval timer id runs
IntervalTick(id) ==
  /\ id \in transport.timers
  /\ IF isPlaying /\ buffer # NoBuffer
       THEN IF position >= Duration
              THEN \* stopAudio(); pauseTime = 0; seekBar.value = 0
                   /\ source' = 0
                   /\ sourceBuffer' = NoBuffer
                   /\ isPlaying' = FALSE
                   /\ seekPending' = FALSE
                   /\ pauseTime' = 0
                   /\ transport' = [stopAudio(transport) EXCEPT !.seekBar = 0,
                                                                !.atEnd = TRUE]
                   /\ UNCHANGED position
              ELSE /\ transport' = [transport EXCEPT !.seekBar = position]
                   /\ UNCHANGED playerVars
       ELSE UNCHANGED <<playerVars, transport>>
  /\ UNCHANGED <<ctlVars, chainVars, graphVars, loadVars, exportVars>>

\* the requestAnimationFrame callback, updateLevelMeter, runs
AnimationFrame ==
  /\ transport.frame
  /\ transport' = updateLevelMeter([transport EXCEPT !.frame = FALSE], isPlaying)
  /\ UNCHANGED <<ctlVars, chainVars, graphVars, loadVars, playerVars, exportVars>>

NextTransport ==
  \/ \E f \in {"stereo.wav"} : UiFree /\ loads = {} /\ ChangeFile(f) /\ UNCHANGED dsp
  \/ \E l \in loads : ReadReturn(l) /\ UNCHANGED <<dsp, transport>>
  \/ \E l \in loads : DecodeReturn(l) /\ UNCHANGED <<dsp, transport>>
  \/ LoadHideTimeout /\ UNCHANGED <<dsp, transport>>
  \/ UiFree /\ PlayClick /\ UNCHANGED dsp
  \/ UiFree /\ StopClick /\ UNCHANGED dsp
  \/ \E time \in 0..Duration : UiFree /\ Seek(time) /\ UNCHANGED dsp
  \/ RenderQuantum /\ UNCHANGED dsp
  \/ \E n \in 1..MaxSources : EndedEvent(n) /\ UNCHANGED dsp
  \/ \E id \in 1..MaxSources : IntervalTick(id) /\ UNCHANGED dsp
  \/ AnimationFrame /\ UNCHANGED dsp

SpecTransport == Init /\ [][NextTransport]_vars

(***************************************************************************)
(* Claims about the player's timers, events and meter.                     *)
(***************************************************************************)
\* C21: at most one position-update interval timer is active, and none is
\* active while isPlaying is false.
C21_OneTimerWhilePlaying ==
  /\ Cardinality(transport.timers) <= 1
  /\ ~isPlaying => transport.timers = {}

\* playback that was restarted by seeks runs with its one timer
C21_Witness ==
  /\ isPlaying
  /\ Len(transport.nodes) >= 2
  /\ transport.nodes[transport.live].onended = "seekTo"
  /\ transport.timers = {transport.seekUpdateInterval}

\* C26: the 'ended' event of a source that was stopped, dispatched while a
\* newer source is playing, leaves isPlaying true, the position timer active
\* and the meter's frame scheduled.
C26_LateEndedIsHarmless ==
  [][(/\ isPlaying
      /\ \E n \in DOMAIN transport.nodes :
           /\ n # transport.live
           /\ transport.nodes[n].state = "stopped"
           /\ transport'.nodes[n].state = "done")
     => (/\ isPlaying'
         /\ transport'.timers = transport.timers
         /\ transport'.frame = transport.frame)]_vars

\* C27: once the end of the buffer was observed, by the 'ended' handler or
\* by the timer callback, pauseTime and seekBar.value are 0.
C27_EndResetsPosition ==
  transport.atEnd => (pauseTime = 0 /\ transport.seekBar = 0)

\* C28: while isPlaying is true a meter frame is scheduled, and
\* meterState.animationId is non-null only while a frame is scheduled.
C28_MeterRunsWhilePlaying ==
  /\ isPlaying => transport.frame
  /\ transport.animationId => transport.frame

(***************************************************************************)
(* The export under the assumption that the platform answers: the promise  *)
(* of startRendering() and the promise of writeFileData each settle, so    *)
(* the continuation of an export that awaits one of them eventually runs.  *)
(***************************************************************************)
RenderSettles(i) ==
  (RenderReturn(i) \/ RenderThrow(i) \/ EncodeThrow(i)) /\ UNCHANGED <<dsp, transport>>

WriteSettles(i) ==
  (WriteReturn(i) \/ WriteThrow(i)) /\ UNCHANGED <<dsp, transport>>

\* the user loads a file, exports it and cancels, again and again, and
\* replaces the file at most while the first export is still under way and
\* no second one was begun (which is how a second export comes to run
\* beside the first)
NextExportFair ==
  \/ \E f \in {"stereo.wav"} :
       /\ UiFree /\ loads = {}
       /\ buffer = NoBuffer \/ (InProgress(1) /\ exports[2].pc = "idle")
       /\ LoadStart(f, TRUE) /\ UNCHANGED <<dsp, transport>>
  \/ \E l \in loads : ReadReturn(l) /\ UNCHANGED <<dsp, transport>>
  \/ \E l \in loads : DecodeReturn(l) /\ UNCHANGED <<dsp, transport>>
  \/ LoadHideTimeout /\ UNCHANGED <<dsp, transport>>
  \/ \E i \in ExportIds : UiFree /\ ProcessClick(i) /\ UNCHANGED <<dsp, transport>>
  \/ \E i \in ExportIds : SaveDialogDismiss(i) /\ UNCHANGED <<dsp, transport>>
  \/ \E i \in ExportIds : SaveDialogReturn(i) /\ UNCHANGED <<dsp, transport>>
  \/ \E i \in ExportIds : RenderSettles(i)
  \/ \E i \in ExportIds : WriteSettles(i)
  \/ \E i \in ExportIds : CompleteTimeout(i) /\ UNCHANGED <<dsp, transport>>
  \/ ~DialogOpen /\ ModalCancelClick /\ UNCHANGED <<dsp, transport>>
  \/ ~DialogOpen /\ CancelBtnClick /\ UNCHANGED <<dsp, transport>>

SpecExportFair ==
  /\ Init
  /\ [][NextExportFair]_vars
  /\ \A i \in ExportIds : WF_vars(RenderSettles(i)) /\ WF_vars(WriteSettles(i))

\* C30: every export that has started (it awaits its render or its write)
\* eventually ends, and the step that ends it leaves isProcessing false and
\* the export button enabled, whether it completed, was cancelled or failed.
C30_ExportEnds ==
  /\ \A i \in ExportIds : InProgress(i) ~> (exports[i].pc = "done")
  /\ [][\A i \in ExportIds :
          (InProgress(i) /\ exports'[i].pc = "done")
            => (~isProcessing' /\ ~processBtnDisabled')]_vars

\* one export ended as cancelled or failed and a later one completed
C30_Witness ==
  /\ exports[1].pc = "done" /\ exports[1].reported \cap {"cancelled", "failed"} # {}
  /\ exports[2].pc = "done" /\ exports[2].fileWritten
  /\ ~isProcessing /\ ~processBtnDisabled

=============================================================================
